---------------------------- MODULE Spec2Model ----------------------------
(***************************************************************************)
(* A model of the note-graph engine of obsidian-project: the link index,   *)
(* the graph-build orchestration of NotesApp with its background builder,  *)
(* and the rename propagation service with its background worker.          *)
(*                                                                         *)
(* Strings are sequences of one-character strings, so that the parsing and *)
(* canonicalization functions are computed as the code computes them.      *)
(***************************************************************************)
EXTENDS Integers, Sequences, FiniteSets, TLC

(***************************************************************************)
(* Bounds of the model.                                                    *)
(***************************************************************************)
\* the largest number of wikilink spans in a note text of the model
MaxSpans == 2

\* the number of graph builds a behaviour requests at most
MaxReq == 3

\* the number of graph builds requested at most where two notes are opened
MaxReqTwoNotes == 2

\* the number of renames a behaviour starts at most
MaxRenames == 1

\* the number of renames started at most where they overlap
MaxOverlap == 2

\* the largest number of debounced requests within one timer window
MaxBurst == 2

\* the number of atomic_write_text calls a behaviour makes at most
MaxWrites == 2

\* the number of renames in a chain of renames of one note
MaxChain == 2

\* the notes of the large vault beyond the smallest node limit
MaxExtra == 2

\* the largest depth of a local graph
MaxDepth == 2

\* the length of the short titles given to safe_filename
MaxTitle == 3

\* the number of builds requested at most where the editor is modelled
MaxReqEditor == 1

\* the number of recovery copies in the recovery directory at most
MaxRecoveryCopies == 1

\* the number of nodes of the largest snapshot given to the step suggestion
MaxLayoutNodes == 12

\* the length of the longest text given to the preview debounce, in hundreds
\* of characters
MaxHundreds == 12

\* the number of builds requested at most by the main window of
\* obsidian_project
MaxReqMainWindow == 2

\* the largest history_limit a NavigationController is constructed with
MaxHistoryLimit == 2

\* the number of entries of the back deque beyond which no further note is
\* opened
MaxHistory == 3

(***************************************************************************)
(* Characters and strings.                                                 *)
(***************************************************************************)
UpperChars == <<"A","B","C","D","E","F","G","H","I","J","K","L","M",
                "N","O","P","Q","R","S","T","U","V","W","X","Y","Z">>

LowerChars == <<"a","b","c","d","e","f","g","h","i","j","k","l","m",
                "n","o","p","q","r","s","t","u","v","w","x","y","z">>

\* str.lower() on one character
LowerChar(c) ==
    IF \E i \in 1..Len(UpperChars) : UpperChars[i] = c
    THEN LowerChars[CHOOSE i \in 1..Len(UpperChars) : UpperChars[i] = c]
    ELSE c

Lower(s) == [i \in 1..Len(s) |-> LowerChar(s[i])]

\* unicodedata.normalize("NFKC", .) on one character: compatibility forms
\* (fullwidth letter, no-break space) are replaced, other characters kept
NFKCChar(c) ==
    CASE c = "FULLWIDTH_A" -> "A"
      [] c = "NBSP"        -> " "
      [] OTHER             -> c

\* unicodedata.category(ch)[0] == "C": control characters (tab, newline, NUL)
IsControl(c) == c \in {"\t", "\n", "NUL"}

\* what str.strip() and the regex class \s treat as white space
IsSpace(c) == c \in {" ", "\t", "\n"}

RECURSIVE LStrip(_)
LStrip(s) == IF s # <<>> /\ IsSpace(Head(s)) THEN LStrip(Tail(s)) ELSE s

RECURSIVE RStrip(_)
RStrip(s) ==
    IF s # <<>> /\ IsSpace(s[Len(s)]) THEN RStrip(SubSeq(s, 1, Len(s) - 1)) ELSE s

\* str.strip()
Strip(s) == RStrip(LStrip(s))

\* str.rstrip(" ."): the string up to its last character that is neither a
\* blank nor a dot
RStripSpaceDot(s) ==
    LET kept == { i \in 1..Len(s) : s[i] \notin {" ", "."} }
    IN IF kept = {} THEN <<>>
       ELSE SubSeq(s, 1, CHOOSE i \in kept : \A j \in kept : j <= i)

\* re.sub(r"\s+", " ", s): of every run of white space the first character
\* stays, as a blank
CollapseSpaces(s) ==
    LET first == SelectSeq([i \in 1..Len(s) |-> i],
                           LAMBDA i : ~(IsSpace(s[i]) /\ i > 1 /\ IsSpace(s[i - 1])))
    IN [j \in 1..Len(first) |-> IF IsSpace(s[first[j]]) THEN " " ELSE s[first[j]]]

\* index of the first occurrence of character c in s, 0 when absent
FirstIndexOf(s, c) ==
    IF \E i \in 1..Len(s) : s[i] = c
    THEN CHOOSE i \in 1..Len(s) : s[i] = c /\ \A j \in 1..(i - 1) : s[j] # c
    ELSE 0

\* s.split(c, 1)[0]
BeforeFirst(s, c) ==
    IF FirstIndexOf(s, c) = 0 THEN s ELSE SubSeq(s, 1, FirstIndexOf(s, c) - 1)

\* s.split(c, 1)[1], for s containing c
AfterFirst(s, c) == SubSeq(s, FirstIndexOf(s, c) + 1, Len(s))

(***************************************************************************)
(* safe_filename: the canonical note id of a title.                        *)
(***************************************************************************)
MAX_FILENAME_LENGTH == 120

Digits19 == {"1","2","3","4","5","6","7","8","9"}

WINDOWS_RESERVED_NAMES ==
    {<<"c","o","n">>, <<"p","r","n">>, <<"a","u","x">>, <<"n","u","l">>}
    \cup {<<"c","o","m",d>> : d \in Digits19}
    \cup {<<"l","p","t",d>> : d \in Digits19}

\* the values uuid.uuid4().hex[:6] can take, each one character of the model
Tokens == {"t1", "t2"}

UntitledPrefix == <<"U","n","t","i","t","l","e","d","-">>

\* f"Untitled-{uuid.uuid4().hex[:6]}", tok the value the uuid call returns
GenerateUntitled(tok) == UntitledPrefix \o <<tok>>

\* characters replaced by "_": <>:"/\|?* and \u0000-\u001f
IsInvalidChar(c) == c \in {"<", ">", ":", "\"", "/", "\\", "|", "?", "*", "NUL"}

ReplacePathSeps(s) == [i \in 1..Len(s) |-> IF s[i] \in {"/", "\\"} THEN "-" ELSE s[i]]

ReplaceInvalid(s) == [i \in 1..Len(s) |-> IF IsInvalidChar(s[i]) THEN "_" ELSE s[i]]

SafeCleaned(title) ==
    LET n1 == [i \in 1..Len(title) |-> NFKCChar(title[i])]
        n2 == SelectSeq(n1, LAMBDA c : ~IsControl(c))
        n3 == Strip(n2)
        n4 == ReplacePathSeps(n3)
        n5 == ReplaceInvalid(n4)
        n6 == CollapseSpaces(n5)
    IN RStripSpaceDot(n6)

\* if not s: s = f"Untitled-{uuid.uuid4().hex[:6]}"
FallbackIfEmpty(s, tok) == IF s = <<>> THEN GenerateUntitled(tok) ELSE s

\* base = s.split(".")[0].strip().lower(); if base in reserved: s = f"_{s}"
PrefixReserved(s) ==
    IF Lower(Strip(BeforeFirst(s, "."))) \in WINDOWS_RESERVED_NAMES THEN <<"_">> \o s ELSE s

\* if len(s) > max_len: s = s[:max_len].rstrip(" .")
TruncateName(s) ==
    IF Len(s) > MAX_FILENAME_LENGTH
    THEN RStripSpaceDot(SubSeq(s, 1, MAX_FILENAME_LENGTH))
    ELSE s

\* safe_filename(title); tok is the token drawn if the fallback name is needed
safe_filename(title, tok) ==
    TruncateName(PrefixReserved(FallbackIfEmpty(SafeCleaned(title), tok)))

(***************************************************************************)
(* Wikilink parsing: WIKILINK_RE = \[\[([^\]]+)\]\]                        *)
(***************************************************************************)
\* index of the first "]" at or after position i, 0 when there is none
NextClose(t, i) ==
    IF \E k \in i..Len(t) : t[k] = "]"
    THEN CHOOSE k \in i..Len(t) : t[k] = "]" /\ \A j \in i..(k - 1) : t[j] # "]"
    ELSE 0

\* the regex matches at position i: "[[", one or more non-"]", then "]]"
MatchAt(t, i) ==
    /\ i + 1 <= Len(t)
    /\ t[i] = "[" /\ t[i + 1] = "["
    /\ NextClose(t, i + 2) > i + 2
    /\ NextClose(t, i + 2) + 1 <= Len(t)
    /\ t[NextClose(t, i + 2) + 1] = "]"

\* WIKILINK_RE.finditer(text): group(1) of each match, leftmost first
RECURSIVE FindSpans(_, _)
FindSpans(t, i) ==
    IF i > Len(t) THEN <<>>
    ELSE IF MatchAt(t, i)
         THEN <<SubSeq(t, i + 2, NextClose(t, i + 2) - 1)>>
              \o FindSpans(t, NextClose(t, i + 2) + 2)
         ELSE FindSpans(t, i + 1)

\* the raw target of a span: the part before "|", stripped
TargetRaw(inner) ==
    IF FirstIndexOf(inner, "|") # 0 THEN Strip(BeforeFirst(inner, "|")) ELSE inner

\* extract_wikilink_targets(text); toks[k] is the token the k-th span's
\* safe_filename call draws
extract_wikilink_targets(text, toks) ==
    LET spans == FindSpans(text, 1)
    IN { safe_filename(TargetRaw(Strip(spans[k])), toks[k]) :
            k \in { j \in 1..Len(spans) : Strip(spans[j]) # <<>> } }

(***************************************************************************)
(* The universe of the model: note files and note texts.                   *)
(***************************************************************************)
\* "[[" inner "]]"
Link(inner) == <<"[", "[">> \o inner \o <<"]", "]">>

IdA == <<"A">>
IdB == <<"B">>
IdC == <<"C">>

\* the stems of the note files of the vault
Stems == {IdA, IdB, IdC}

TextEmpty    == <<>>
TextB        == <<"t", "o", " ">> \o Link(<<"B">>)
TextSelfAB   == Link(<<"A">>) \o <<" ">> \o Link(<<" ", "B", " ">>)
TextAliasC   == Link(<<"C", "|", "x">>) \o Link(<<"A">>)
TextNoTarget == Link(<<"|", "x">>)
TextDots     == Link(<<"B">>) \o <<" ">> \o Link(<<".", ".">>)

\* the note texts of the model
Texts == {TextEmpty, TextB, TextSelfAB, TextAliasC, TextNoTarget, TextDots}

TokFns == [1..MaxSpans -> Tokens]

\* the spans of a text whose safe_filename call falls back to a generated name
NeedsToken(text) ==
    LET spans == FindSpans(text, 1)
    IN { k \in 1..Len(spans) :
            /\ k <= MaxSpans
            /\ Strip(spans[k]) # <<>>
            /\ SafeCleaned(TargetRaw(Strip(spans[k]))) = <<>> }

\* the uuid draws of one extract_wikilink_targets(text) call that differ in
\* a draw the call makes (a draw that is not made is fixed)
TokFnsForTable ==
    [text \in Texts |->
        { f \in TokFns : \A k \in 1..MaxSpans : k \notin NeedsToken(text) => f[k] = "t1" }]

TokFnsFor(text) == TokFnsForTable[text]

\* extract_wikilink_targets on the texts of the model, computed once
TargetsTable ==
    [text \in Texts |-> [toks \in TokFns |-> extract_wikilink_targets(text, toks)]]

\* safe_filename(p.stem) for the files of the model (never the fallback)
CanonStem(src) == safe_filename(src, "t1")

(***************************************************************************)
(* LinkIndex: outgoing and incoming are Python dicts, modelled as          *)
(* functions whose domain is the set of keys.                              *)
(***************************************************************************)
VARIABLES outgoing, incoming, lastCall

idxVars == <<outgoing, incoming, lastCall>>

EmptyDict == [k \in {} |-> {}]

\* d.get(k, set())
DictGet(d, k) == IF k \in DOMAIN d THEN d[k] ELSE {}

\* d.pop(k, None)
DictPop(d, k) == [x \in (DOMAIN d) \ {k} |-> d[x]]

\* d[k] = v
DictSet(d, k, v) == [x \in (DOMAIN d) \cup {k} |-> IF x = k THEN v ELSE d[x]]

\* update_note without new_targets.discard(src)
NewTargetsKeepSelf(src, text, toks) == TargetsTable[text][toks]

\* new_targets = extract_wikilink_targets(text); new_targets.discard(src)
NewTargets(src, text, toks) == TargetsTable[text][toks] \ {src}

\* update_note without the loop that detaches src from the removed targets
RemoveBacklinksSkipped(inc, src, removed) == inc

\* the loop over old_targets - new_targets: discard src from incoming[dst],
\* popping the key when its set becomes empty
RemoveBacklinks(inc, src, removed) ==
    [dst \in { d \in DOMAIN inc : ~(d \in removed /\ inc[d] # {} /\ inc[d] \ {src} = {}) } |->
        IF dst \in removed /\ inc[dst] # {} THEN inc[dst] \ {src} ELSE inc[dst]]

\* the loop over new_targets - old_targets: incoming.setdefault(dst, set()).add(src)
AddBacklinks(inc, src, added) ==
    [dst \in (DOMAIN inc) \cup added |->
        IF dst \in added THEN DictGet(inc, dst) \cup {src} ELSE inc[dst]]

\* update_note storing outgoing[src] even when new_targets is empty
SetOutgoingKeepsKey(out, src, new) == DictSet(out, src, new)

\* if new_targets: outgoing[src] = set(new_targets) else: outgoing.pop(src, None)
SetOutgoing(out, src, new) ==
    IF new # {} THEN DictSet(out, src, new) ELSE DictPop(out, src)

\* update_note from the comparison on: old_targets against new_targets, then
\* the backlinks and outgoing[src]
ReplaceTargets(idx, src, new) ==
    IF DictGet(idx.outgoing, src) = new
    THEN [outgoing |-> idx.outgoing, incoming |-> idx.incoming, changed |-> FALSE]
    ELSE [outgoing |-> SetOutgoing(idx.outgoing, src, new),
          incoming |-> AddBacklinks(
                          RemoveBacklinks(idx.incoming, src,
                                          DictGet(idx.outgoing, src) \ new),
                          src, new \ DictGet(idx.outgoing, src)),
          changed  |-> TRUE]

\* LinkIndex.update_note(src, text) on the index idx = [outgoing, incoming];
\* the result is the index afterwards and the value returned
update_note(idx, rawSrc, text, toks) ==
    ReplaceTargets(idx, CanonStem(rawSrc), NewTargets(CanonStem(rawSrc), text, toks))

\* LinkIndex.clear()
ClearedIndex == [outgoing |-> EmptyDict, incoming |-> EmptyDict]

\* the outcome of p.read_text() raising
Unreadable == <<"READ_ERROR">>

\* the loop ending at the first file whose read raises
RECURSIVE RebuildLoopStopping(_, _, _, _)
RebuildLoopStopping(idx, order, content, toksOf) ==
    IF order = <<>> \/ content[Head(order)] = Unreadable THEN idx
    ELSE RebuildLoopStopping(update_note(idx, Head(order), content[Head(order)],
                                         toksOf[Head(order)]),
                             Tail(order), content, toksOf)

\* the body of rebuild_from_vault's loop over the files, in glob order:
\* a file whose read raises is skipped
RECURSIVE RebuildLoop(_, _, _, _)
RebuildLoop(idx, order, content, toksOf) ==
    IF order = <<>> THEN idx
    ELSE LET p == Head(order)
             r == update_note(idx, p, content[p], toksOf[p])
         IN IF content[p] = Unreadable
            THEN RebuildLoop(idx, Tail(order), content, toksOf)
            ELSE RebuildLoop([outgoing |-> r.outgoing, incoming |-> r.incoming],
                             Tail(order), content, toksOf)

\* LinkIndex.rebuild_from_vault(vault_dir)
rebuild_from_vault(order, content, toksOf) ==
    RebuildLoop(ClearedIndex, order, content, toksOf)

\* the orders in which glob can yield the files
GlobOrders ==
    { o \in [1..Cardinality(Stems) -> Stems] : \A i, j \in DOMAIN o : i # j => o[i] # o[j] }

\* what a file of the vault can hold when the index is rebuilt
RebuildEntries == {TextB, TextSelfAB, TextNoTarget, Unreadable}

NoCall == [op |-> "none"]

InitIndex ==
    /\ outgoing = EmptyDict
    /\ incoming = EmptyDict
    /\ lastCall = NoCall

UpdateNote ==
    \E src \in Stems, text \in Texts :
      \E toks \in TokFnsFor(text) :
        LET r == update_note([outgoing |-> outgoing, incoming |-> incoming], src, text, toks)
        IN /\ outgoing' = r.outgoing
           /\ incoming' = r.incoming
           /\ lastCall' = [op |-> "update_note", src |-> src, text |-> text,
                           toks |-> toks, changed |-> r.changed]

\* the draws of the update_note call made for file p of the rebuild
RebuildToks(content, p) ==
    IF content[p] = Unreadable THEN {[k \in 1..MaxSpans |-> "t1"]}
    ELSE TokFnsFor(content[p])

\* every index rebuild_from_vault can produce over the vaults of the model
\* (it starts from a cleared index, so the result depends on the vault alone)
RebuildOutcomes ==
    UNION { UNION { { rebuild_from_vault(order, content,
                        [p \in Stems |-> IF p = IdA THEN ta ELSE IF p = IdB THEN tb ELSE tc]) :
                      ta \in RebuildToks(content, IdA),
                      tb \in RebuildToks(content, IdB),
                      tc \in RebuildToks(content, IdC) } :
                    order \in GlobOrders } :
            content \in [Stems -> RebuildEntries] }

RebuildFromVault ==
    \E r \in RebuildOutcomes :
        /\ outgoing' = r.outgoing
        /\ incoming' = r.incoming
        /\ lastCall' = [op |-> "rebuild_from_vault"]

\* what a file holds in the vaults rebuilt under SpecRebuild: texts whose
\* extraction draws no generated name, or a read that raises
RebuildTexts == {TextB, TextSelfAB, Unreadable}

\* the draws of an update_note call that draws none
FixedDraws == [p \in Stems |-> [k \in 1..MaxSpans |-> "t1"]]

\* rebuild_from_vault over every vault of RebuildTexts and every glob order,
\* computed once
RebuildTable ==
    [content \in [Stems -> RebuildTexts] |->
        [order \in GlobOrders |-> rebuild_from_vault(order, content, FixedDraws)]]

\* rebuild_from_vault over a vault whose files hold content, read in the
\* order glob yields them; the call's inputs are kept in lastCall
RebuildRecorded(idx, content) ==
    /\ outgoing' = idx.outgoing
    /\ incoming' = idx.incoming
    /\ lastCall' = [op |-> "rebuild_from_vault", content |-> content, toks |-> FixedDraws]

\* what rebuild_from_vault can leave over each vault, whatever the order
RebuildResults ==
    [content \in [Stems -> RebuildTexts] |->
        { RebuildTable[content][order] : order \in GlobOrders }]

RebuildReadable ==
    \E content \in [Stems -> RebuildTexts] :
      \E idx \in RebuildResults[content] : RebuildRecorded(idx, content)

Clear ==
    /\ outgoing' = ClearedIndex.outgoing
    /\ incoming' = ClearedIndex.incoming
    /\ lastCall' = [op |-> "clear"]

(***************************************************************************)
(* String order: sorted(..., key=str.lower).                               *)
(***************************************************************************)
\* the characters of the model in code point order (the generated tokens,
\* which stand for six hexadecimal digits, are placed last)
CharOrder == <<"\t", "\n", " ", "\"", "#", "*", "-", ".", "/",
               "1", "2", "3", "4", "5", "6", "7", "8", "9", ":", "<", ">", "?",
               "A","B","C","D","E","F","G","H","I","J","K","L","M",
               "N","O","P","Q","R","S","T","U","V","W","X","Y","Z",
               "[", "\\", "]", "^", "_",
               "a","b","c","d","e","f","g","h","i","j","k","l","m",
               "n","o","p","q","r","s","t","u","v","w","x","y","z",
               "|", "t1", "t2">>

CharRank(c) == CHOOSE i \in 1..Len(CharOrder) : CharOrder[i] = c

\* a < b for Python strings (lexicographic by code point)
RECURSIVE StrLess(_, _)
StrLess(a, b) ==
    IF b = <<>> THEN FALSE
    ELSE IF a = <<>> THEN TRUE
    ELSE IF Head(a) = Head(b) THEN StrLess(Tail(a), Tail(b))
    ELSE CharRank(Head(a)) < CharRank(Head(b))

\* sorted(S, key=str.lower); ids that differ only in case keep the order in
\* which the set yields them, here the order of the strings themselves
LowerLE(a, b) ==
    \/ StrLess(Lower(a), Lower(b))
    \/ (Lower(a) = Lower(b) /\ (a = b \/ StrLess(a, b)))

RECURSIVE SortedByLower(_)
SortedByLower(S) ==
    IF S = {} THEN <<>>
    ELSE LET m == CHOOSE x \in S : \A y \in S : LowerLE(x, y)
         IN <<m>> \o SortedByLower(S \ {m})

SeqToSet(q) == { q[i] : i \in 1..Len(q) }

\* backlinks_for reading the outgoing links of the target
backlinks_for_outgoing(idx, target, tok) ==
    SortedByLower(DictGet(idx.outgoing, safe_filename(target, tok)))

\* LinkIndex.backlinks_for(target) on the index idx, tok the draw of its
\* safe_filename call
backlinks_for(idx, target, tok) ==
    SortedByLower(DictGet(idx.incoming, safe_filename(target, tok)))

(***************************************************************************)
(* _GraphBuildWorker.run: the graph snapshot of an index snapshot.  Edges  *)
(* are modelled as the set of (src, dst) pairs of the deduplicated list;   *)
(* the list's order (dict insertion order) is not modelled.                *)
(***************************************************************************)
None == <<"NONE">>

\* self.max_nodes = max(50, int(max_nodes))
MIN_MAX_NODES == 50

ClampMaxNodes(max_nodes) == IF max_nodes > MIN_MAX_NODES THEN max_nodes ELSE MIN_MAX_NODES

\* title_set: the existing titles and every source and target of the snapshot
AllNodes(snap, existing) ==
    existing \cup (DOMAIN snap) \cup UNION { SeqToSet(snap[a]) : a \in DOMAIN snap }

\* edges_all: the pairs (src, dst) of the snapshot with src # dst
AllEdges(snap) ==
    { e \in (DOMAIN snap) \X UNION { SeqToSet(snap[x]) : x \in DOMAIN snap } :
          e[2] \in SeqToSet(snap[e[1]]) /\ e[1] # e[2] }

\* deg[n]: the number of edge ends at n
Degree(n, edges) ==
    Cardinality({ e \in edges : e[1] = n }) + Cardinality({ e \in edges : e[2] = n })

\* sorted(nodes_all, key=lambda n: n.lower()): the degrees left out of the key
RankedByNameOnly(S, edges) == SortedByLower(S)

\* sorted(nodes_all, key=lambda n: (-deg[n], n.lower()))
RECURSIVE RankedByDegree(_, _)
RankedByDegree(S, edges) ==
    IF S = {} THEN <<>>
    ELSE LET m == CHOOSE x \in S : \A y \in S :
                      \/ Degree(x, edges) > Degree(y, edges)
                      \/ (Degree(x, edges) = Degree(y, edges) /\ LowerLE(x, y))
         IN <<m>> \o RankedByDegree(S \ {m}, edges)

\* the limit without "keep[-1] = self.center"
LimitGlobalTopOnly(nodes, edges, center, max_nodes) ==
    SeqToSet(SubSeq(RankedByDegree(nodes, edges), 1, max_nodes))

\* the nodes kept in global mode when there are more than max_nodes
LimitGlobal(nodes, edges, center, max_nodes) ==
    LET ranked == RankedByDegree(nodes, edges)
        keep   == SubSeq(ranked, 1, max_nodes)
        keep2  == IF center # None /\ center # <<>> /\ center \in nodes
                     /\ center \notin SeqToSet(keep)
                  THEN [keep EXCEPT ![Len(keep)] = center]
                  ELSE keep
    IN SeqToSet(keep2)

\* the neighbours along the direction of the links only
NeighboursForward(frontier, edges) ==
    { e[2] : e \in { x \in edges : x[1] \in frontier } }

\* the neighbours of the nodes of frontier in the undirected view
Neighbours(frontier, edges) ==
    { e[2] : e \in { x \in edges : x[1] \in frontier } }
      \cup { e[1] : e \in { x \in edges : x[2] \in frontier } }

\* the loop "for _ in range(self.depth)" of the breadth-first expansion
RECURSIVE Expand(_, _, _, _)
Expand(visited, frontier, edges, hops) ==
    IF hops = 0 THEN visited
    ELSE LET nxt == Neighbours(frontier, edges) \ visited
         IN Expand(visited \cup nxt, nxt, edges, hops - 1)

\* NotesApp's _GraphBuildWorker.run (app.py): nodes and edges of the payload
BuildGraph(mode, depth, center, snap, existing, max_nodes) ==
    LET d      == IF depth > 1 THEN depth ELSE 1
        nodes0 == AllNodes(snap, existing)
        edges0 == AllEdges(snap)
        lim    == mode = "global" /\ Cardinality(nodes0) > ClampMaxNodes(max_nodes)
        nodes1 == IF lim THEN LimitGlobal(nodes0, edges0, center, ClampMaxNodes(max_nodes))
                  ELSE nodes0
        edges1 == { e \in edges0 : e[1] \in nodes1 /\ e[2] \in nodes1 }
        loc    == mode = "local" /\ center # None /\ center # <<>>
        nodes2 == IF loc THEN Expand({center}, {center}, edges1, d) ELSE nodes1
        edges2 == { e \in edges1 : e[1] \in nodes2 /\ e[2] \in nodes2 }
    IN [nodes |-> SortedByLower(nodes2), edges |-> edges2]

(***************************************************************************)
(* NotesApp (app.py): the graph orchestration on the interactive thread,   *)
(* the pool of _GraphBuildWorker and the queue of their signals.           *)
(***************************************************************************)
VARIABLES graph_req_id,     \* NotesApp._graph_req_id
          graph_debounce,   \* _graph_debounce_timer.isActive()
          graph_mode,       \* NotesApp.graph_mode
          graph_depth,      \* NotesApp.graph_depth
          current,          \* current_path.stem, or None
          workers,          \* the workers started in _graph_pool, not yet run
          signalQ,          \* signals emitted by workers, queued to the interactive thread
          lastEvent,        \* history: the handler that ran last; for a worker run
                            \* whether the index had changed since its dispatch, for
                            \* an immediate request whether the timer was running
          delivered,        \* history: the signals delivered, and for each whether
                            \* the handler went on to GraphView.build / the error box
          requestedCtx,     \* history: the context when the latest debounced request
                            \* of the open window was made, or NoRequest
          windowCount       \* history: debounced requests since the timer was last idle

graphVars == <<graph_req_id, graph_debounce, graph_mode, graph_depth, current, workers,
               signalQ, lastEvent, delivered, requestedCtx, windowCount>>

\* graph/max_nodes as shipped
MAX_GRAPH_NODES == 400

\* sorted(dsts)
RECURSIVE SortedStr(_)
SortedStr(S) ==
    IF S = {} THEN <<>>
    ELSE LET m == CHOOSE x \in S : \A y \in S : x = y \/ StrLess(x, y)
         IN <<m>> \o SortedStr(S \ {m})

\* {src: sorted(dsts) for src, dsts in self._link_index.outgoing.items()}
SnapshotOf(out) == [src \in DOMAIN out |-> SortedStr(out[src])]

\* the real notes on disk: {p.stem for p in vault_dir.glob("*.md")}
ExistingTitles == Stems

\* the worker handed the live index instead of a copy of it
WorkerInputLive(w) == SnapshotOf(outgoing)

\* what run() iterates: self.outgoing_snapshot, the dict given at construction
WorkerInput(w) == w.ctx.outgoing_snapshot

\* request_build_link_graph(immediate=True) without stopping the timer
TimerAfterImmediateKept(active) == active

\* request_build_link_graph(immediate=True): the debounce timer is stopped
TimerAfterImmediate(active) == FALSE

\* _on_graph_built applying every result
IsCurrentAlways(req_id, cur) == TRUE

\* _on_graph_built: "if req_id != self._graph_req_id: return"
IsCurrent(req_id, cur) == req_id = cur

\* the inputs _request_build_link_graph_now reads: mode, depth, center, the
\* index snapshot and the titles on disk
GraphContext(mode, depth, center, out) ==
    [mode              |-> mode,
     depth             |-> depth,
     center            |-> center,
     outgoing_snapshot |-> SnapshotOf(out),
     existing_titles   |-> ExistingTitles]

\* the worker _request_build_link_graph_now constructs, the index being out
NewWorker(id, mode, depth, center, out) ==
    [req_id    |-> id,
     ctx       |-> GraphContext(mode, depth, center, out),
     max_nodes |-> MAX_GRAPH_NODES]

\* _request_build_link_graph_now with the context (mode, depth, center, out)
RequestNow(mode, depth, center, out) ==
    /\ graph_req_id' = graph_req_id + 1
    /\ workers' = workers \cup {NewWorker(graph_req_id + 1, mode, depth, center, out)}

NoFlush == <<"NO_FLUSH">>

\* no debounced request is waiting
NoRequest == [mode |-> "NO_REQUEST"]

\* the notes opened and the texts saved under SpecGraph
GraphTitles == {IdA}

\* the notes opened under SpecTwoNotes
TwoTitles == {IdA, IdB}

GraphTexts == {TextEmpty, TextAliasC}

GraphModes == {<<"local", 1>>}

InitGraph ==
    /\ graph_req_id = 0
    /\ graph_debounce = FALSE
    /\ graph_mode = "global"
    /\ graph_depth = 1
    /\ current = None
    /\ workers = {}
    /\ signalQ = <<>>
    /\ lastEvent = [op |-> "init"]
    /\ delivered = <<>>
    /\ requestedCtx = NoRequest
    /\ windowCount = 0

\* save_now from the index update on, r being what update_note returned:
\* with links_changed a debounced build is requested (the timer is restarted)
SaveApply(r) ==
    /\ r.changed
    /\ outgoing' = r.outgoing
    /\ incoming' = r.incoming
    /\ graph_debounce' = TRUE
    /\ windowCount' = windowCount + 1
    /\ requestedCtx' = GraphContext(graph_mode, graph_depth, current, r.outgoing)
    /\ lastEvent' = [op |-> "save_now"]
    /\ UNCHANGED <<lastCall, graph_req_id, graph_mode, graph_depth, current, workers,
                   signalQ, delivered>>

\* _flush_current_note_before_switch: save_now of the editor text flush, if
\* there is a current note and the text differs from the saved one
FlushResult(flush, toks) ==
    IF current # None /\ flush # NoFlush
    THEN update_note([outgoing |-> outgoing, incoming |-> incoming], current, flush, toks)
    ELSE [outgoing |-> outgoing, incoming |-> incoming, changed |-> FALSE]

\* the debounced request of the flush-save, if it made one
FlushContext(r) ==
    IF r.changed
    THEN GraphContext(graph_mode, graph_depth, current, r.outgoing)
    ELSE NoRequest

\* _open_note_no_history after the flush, r being the flush-save's index
\* result: the note stem becomes current and is read
OpenAfterFlush(stem, readOk, r, lim) ==
    /\ outgoing' = r.outgoing
    /\ incoming' = r.incoming
    /\ current' = stem
    /\ IF readOk
       THEN /\ graph_req_id < lim
            /\ graph_debounce' = TimerAfterImmediate(r.changed)
            /\ windowCount' = 0
            /\ requestedCtx' = NoRequest
            /\ lastEvent' = [op |-> "immediate", pending |-> r.changed]
            /\ RequestNow(graph_mode, graph_depth, stem, r.outgoing)
       ELSE /\ graph_debounce' = r.changed
            /\ windowCount' = IF r.changed THEN 1 ELSE 0
            /\ requestedCtx' = FlushContext(r)
            /\ lastEvent' = [op |-> "open_failed"]
            /\ UNCHANGED <<graph_req_id, workers>>
    /\ UNCHANGED <<lastCall, graph_mode, graph_depth, signalQ, delivered>>

\* save_now with the editor holding text: the index is updated and, if the
\* links changed, a debounced build is requested (the timer restarts)
SaveNow(texts) ==
    \E text \in texts :
      \E toks \in TokFnsFor(text) :
        /\ current # None
        /\ windowCount < MaxBurst
        /\ SaveApply(update_note([outgoing |-> outgoing, incoming |-> incoming],
                                 current, text, toks))

\* _open_note_no_history(title): the timers are stopped, the previous note is
\* flushed (a save that may change the index and request a debounced build),
\* the note becomes current and is read; if the read raises (the files of
\* unreadable), the handler ends there, otherwise a build is requested with
\* immediate=True
OpenNote(titles, unreadable, texts, lim) ==
    \E title \in titles, flush \in texts \cup {NoFlush} :
      \E toks \in IF flush = NoFlush THEN {[k \in 1..MaxSpans |-> "t1"]} ELSE TokFnsFor(flush) :
        OpenAfterFlush(CanonStem(title), title \notin unreadable,
                       FlushResult(flush, toks), lim)

\* _apply_graph_mode(mode, depth) from the menu entries
ApplyGraphMode(modes, lim) ==
    \E md \in modes :
        /\ graph_req_id < lim
        /\ graph_mode' = md[1]
        /\ graph_depth' = md[2]
        /\ graph_debounce' = TimerAfterImmediate(graph_debounce)
        /\ windowCount' = 0
        /\ requestedCtx' = NoRequest
        /\ lastEvent' = [op |-> "immediate", pending |-> graph_debounce]
        /\ RequestNow(md[1], md[2], current, outgoing)
        /\ UNCHANGED <<outgoing, incoming, lastCall, current, signalQ, delivered>>

\* the debounce timer fires: _request_build_link_graph_now
GraphDebounceTimeout(lim) ==
    /\ graph_debounce
    /\ graph_req_id < lim
    /\ graph_debounce' = FALSE
    /\ windowCount' = 0
    /\ requestedCtx' = NoRequest
    /\ lastEvent' = [op |-> "timeout"]
    /\ RequestNow(graph_mode, graph_depth, current, outgoing)
    /\ UNCHANGED <<outgoing, incoming, lastCall, graph_mode, graph_depth, current,
                   signalQ, delivered>>

\* what run() emits: finished with the payload, or failed from the except
\* clause if building raised
RunSignal(w, kind) ==
    [req_id  |-> w.req_id,
     kind    |-> kind,
     payload |-> IF kind = "finished"
                 THEN BuildGraph(w.ctx.mode, w.ctx.depth, w.ctx.center,
                                 WorkerInput(w), w.ctx.existing_titles,
                                 w.max_nodes)
                 ELSE None]

\* run() with an except clause that emits nothing
EmittedByQuietly(q, w, kind) ==
    IF kind = "failed" THEN q ELSE Append(q, RunSignal(w, kind))

\* the queue of signals after run() has emitted its one signal
EmittedBy(q, w, kind) == Append(q, RunSignal(w, kind))

\* a pool thread runs a worker: it emits finished with the payload, or
\* failed if building raised
WorkerRun(kinds) ==
    \E w \in workers, kind \in kinds :
        /\ workers' = workers \ {w}
        /\ signalQ' = EmittedBy(signalQ, w, kind)
        /\ lastEvent' = [op |-> "worker_run",
                         indexMoved |-> SnapshotOf(outgoing) # w.ctx.outgoing_snapshot]
        /\ UNCHANGED <<outgoing, incoming, lastCall, graph_req_id, graph_debounce, graph_mode,
                       graph_depth, current, delivered, requestedCtx,
                       windowCount>>

\* the thread on which the force-directed layout of a delivered signal is
\* computed: _on_graph_built, a slot of the interactive thread, calls
\* GraphView.build(nodes, edges), which calls _layout_force
LayoutThread(applied, kind) ==
    IF applied /\ kind = "finished" THEN "interactive" ELSE "none"

\* the interactive thread takes the next queued signal:
\* _on_graph_built or _on_graph_build_failed
DeliverSignal ==
    /\ signalQ # <<>>
    /\ LET m == Head(signalQ)
           applied == IsCurrent(m.req_id, graph_req_id)
       IN /\ signalQ' = Tail(signalQ)
          /\ delivered' = Append(delivered, [id |-> m.req_id, kind |-> m.kind,
                                             applied |-> applied,
                                             layout |-> LayoutThread(applied, m.kind)])
          /\ lastEvent' = [op |-> "deliver"]
    /\ UNCHANGED <<outgoing, incoming, lastCall, graph_req_id, graph_debounce, graph_mode,
                   graph_depth, current, workers, requestedCtx, windowCount>>

(***************************************************************************)
(* rewrite_wikilinks_targets: the rewrite of the links to a renamed note.  *)
(***************************************************************************)
\* the suffix separator found first by "for sep in ('#', '^')": "#" if the
\* target contains one, else "^" if it contains one, else none
SuffixSep(target) ==
    IF FirstIndexOf(target, "#") # 0 THEN "#"
    ELSE IF FirstIndexOf(target, "^") # 0 THEN "^"
    ELSE "NO_SEP"

\* base of a raw target: the part before the separator, stripped
BaseOf(target) ==
    IF SuffixSep(target) = "NO_SEP" THEN Strip(target)
    ELSE Strip(BeforeFirst(target, SuffixSep(target)))

\* repl losing the heading or block suffix of the target it replaces
SuffixOfDropped(target) == <<>>

\* suffix of a raw target: the separator and what follows it
SuffixOf(target) ==
    IF SuffixSep(target) = "NO_SEP" THEN <<>>
    ELSE <<SuffixSep(target)>> \o AfterFirst(target, SuffixSep(target))

\* repl(m) for a match whose group(1) is span; the result is the replacement
\* text and whether the match pointed at old_stem
Repl(span, old_stem, new_stem, tok) ==
    LET inner     == Strip(span)
        has_alias == FirstIndexOf(inner, "|") # 0
        target    == IF has_alias THEN Strip(BeforeFirst(inner, "|")) ELSE inner
        display   == IF has_alias THEN Strip(AfterFirst(inner, "|")) ELSE <<>>
        hit       == safe_filename(BaseOf(target), tok) = old_stem
        target2   == IF hit THEN new_stem \o SuffixOf(target) ELSE target
    IN IF inner = <<>>
       THEN [text |-> Link(span), hit |-> FALSE]
       ELSE [text |-> IF has_alias THEN Link(target2 \o <<"|">> \o display)
                      ELSE Link(target2),
             hit  |-> hit]

\* WIKILINK_RE.sub(repl, text) from position i on; k counts the matches and
\* toks[k] is the token the k-th match's safe_filename call draws
RECURSIVE SubFrom(_, _, _, _, _, _)
SubFrom(t, i, k, old_stem, new_stem, toks) ==
    IF i > Len(t) THEN [text |-> <<>>, changed |-> FALSE]
    ELSE IF MatchAt(t, i)
         THEN LET r    == Repl(SubSeq(t, i + 2, NextClose(t, i + 2) - 1),
                               old_stem, new_stem, toks[k])
                  rest == SubFrom(t, NextClose(t, i + 2) + 2, k + 1,
                                  old_stem, new_stem, toks)
              IN [text |-> r.text \o rest.text, changed |-> r.hit \/ rest.changed]
         ELSE LET rest == SubFrom(t, i + 1, k, old_stem, new_stem, toks)
              IN [text |-> <<t[i]>> \o rest.text, changed |-> rest.changed]

\* the uuid draws of one rewrite_wikilinks_targets call: one for each of the
\* two safe_filename calls on the titles and one for each match
RewriteDraws == [old : Tokens, new : Tokens, spans : TokFns]

\* the draws of a call that draws none
NoRewriteDraws == [old |-> "t1", new |-> "t1", spans |-> [k \in 1..MaxSpans |-> "t1"]]

\* the guard of rewrite_wikilinks_targets:
\* if not old_stem or not new_stem or old_stem == new_stem: return text, False
RewriteSkipped(old_stem, new_stem) ==
    old_stem = <<>> \/ new_stem = <<>> \/ old_stem = new_stem

\* rewrite_wikilinks_targets(text, old_stem, new_stem), the text having at
\* most MaxSpans matches; draws are the tokens its fallback names draw
rewrite_wikilinks_targets(text, old, new, draws) ==
    LET old_stem == safe_filename(old, draws.old)
        new_stem == safe_filename(new, draws.new)
    IN IF RewriteSkipped(old_stem, new_stem)
       THEN [text |-> text, changed |-> FALSE]
       ELSE SubFrom(text, 1, 1, old_stem, new_stem, draws.spans)

(***************************************************************************)
(* RenameService and RenameRewriteWorker: the rewrite of the vault after a *)
(* rename, run by a pool thread; its signals are queued to the interactive *)
(* thread.                                                                 *)
(***************************************************************************)
VARIABLES rename_req_id,    \* RenameService._req_id
          cancel_event,     \* RenameService._cancel_event: the Event of the latest
                            \* start (named by that start's request id), or NoEvent
          eventsSet,        \* the Event objects that are set
          renWorkers,       \* request id -> the RenameRewriteWorker started for it
          renameQ,          \* signals emitted by the workers, not yet delivered
          vault,            \* file -> its text
          bak,              \* file -> the text of its .bak file, or NoFile
          renDelivered      \* history: the signal delivered last and whether it
                            \* was passed on to the callbacks

renameVars == <<rename_req_id, cancel_event, eventsSet, renWorkers, renameQ, vault, bak,
                renDelivered>>

NoFile == <<"NO_FILE">>

\* self._cancel_event is None
NoEvent == 0

NoDelivery == [kind |-> "none"]

\* the files handed to start(), sorted by name
RenameFiles == <<"n1.md", "n2.md", "n3.md">>

RTextLink  == Link(<<"A">>)
RTextAlias == Link(<<"A", "|", "x">>)
RTextHead  == Link(<<" ", "A", "#", "h">>) \o Link(<<"C">>)
RTextOther == <<"s", "e", "e", " ">> \o Link(<<"C">>)

\* the vaults a behaviour starts from: every file links to A, or all but n2.md
RenameVaults ==
    { [f \in {"n1.md", "n2.md", "n3.md"} |->
          CASE f = "n1.md" -> RTextLink
            [] f = "n2.md" -> t2
            [] OTHER       -> RTextHead] : t2 \in {RTextAlias, RTextOther} }

\* the calls that can raise in one iteration, "none" for no exception
Failures == {"none", "read", "backup", "write"}

\* a note renamed and then renamed again
ChainPairs == {<<IdA, IdB>>, <<IdB, IdC>>}

\* the (old_title, new_title) pairs given to start()
RenamePairs == {<<IdA, IdB>>, <<IdA, <<" ", "A">>>>}

\* start() called with an empty or blank title as well
StartPairs ==
    {<<IdA, IdB>>, <<IdA, <<" ", "A">>>>, <<IdA, <<>>>>, <<<<>>, IdB>>,
     <<<<>>, <<>>>>, <<IdA, <<" ">>>>}

\* the tokens a safe_filename(title) call can draw
TokensFor(title) == IF SafeCleaned(title) = <<>> THEN Tokens ELSE {"t1"}

\* the handlers passing every event on
IsCurrentRenameAlways(req_id, cur) == TRUE

\* _handle_progress/_handle_finished/_handle_failed: "if req_id != self._req_id: return"
IsCurrentRename(req_id, cur) == req_id = cur

\* a loop that never looks at the flag
CancelSeenNever(ev, set) == FALSE

\* self.cancel_event.is_set()
CancelSeen(ev, set) == ev \in set

\* changed_files counting every file that was to be written
ChangedAfterCountingFailures(n, outcome) ==
    IF outcome \in {"written", "write_error"} THEN n + 1 ELSE n

\* changed_files += 1 is reached only after atomic_write_text returned
ChangedAfter(n, outcome) == IF outcome = "written" THEN n + 1 ELSE n

\* a worker that backs up only the files that have a backup
NeedsBackupInverted(existing) == existing # NoFile

\* "if not backup.exists():", existing being the .bak file or NoFile
NeedsBackup(existing) == existing = NoFile

\* the dict _run_internal returns
RenameResult(w, canceled) ==
    [old_stem      |-> w.old_stem,
     new_stem      |-> w.new_stem,
     total_files   |-> Len(w.files),
     changed_files |-> w.changed_files,
     error_files   |-> w.error_files,
     canceled      |-> canceled]

\* the service as constructed, over the vault v
RenameIdle(v) ==
    /\ rename_req_id = 0
    /\ cancel_event = NoEvent
    /\ eventsSet = {}
    /\ renWorkers = <<>>
    /\ renameQ = <<>>
    /\ vault = v
    /\ bak = [f \in DOMAIN v |-> NoFile]
    /\ renDelivered = NoDelivery

\* a worker whose run() has returned: its locals are gone
Ended(w, how) ==
    [req_id |-> w.req_id, cancel_event |-> w.cancel_event, pc |-> how,
     lateWrites |-> w.lateWrites, bakOverwrites |-> w.bakOverwrites]

InitRename == \E v \in RenameVaults : RenameIdle(v)

\* no worker is running and no signal is waiting
RenameQuiet ==
    /\ \A id \in DOMAIN renWorkers : renWorkers[id].pc \in {"done", "crashed"}
    /\ renameQ = <<>>

\* RenameService.start(files, old_title, new_title): a rejected start returns
\* (False, message) and changes nothing; overlapping says whether the caller
\* starts a rename while an earlier one is still at work
RenameStart(pairs, files, lim, overlapping) ==
    \E pr \in pairs :
      \E tokOld \in TokensFor(pr[1]), tokNew \in TokensFor(pr[2]) :
        LET old_stem == safe_filename(pr[1], tokOld)
            new_stem == safe_filename(pr[2], tokNew)
            req_id   == rename_req_id + 1
        IN IF old_stem = <<>> \/ new_stem = <<>> \/ old_stem = new_stem
           THEN UNCHANGED renameVars
           ELSE /\ rename_req_id < lim
                /\ overlapping \/ RenameQuiet
                /\ rename_req_id' = req_id
                /\ cancel_event' = req_id
                /\ renWorkers' = Append(renWorkers,
                      [req_id        |-> req_id,
                       old_title     |-> pr[1],
                       new_title     |-> pr[2],
                       files         |-> files,
                       old_stem      |-> safe_filename(old_stem, "t1"),
                       new_stem      |-> safe_filename(new_stem, "t1"),
                       cancel_event  |-> req_id,
                       pc            |-> "loop",
                       done          |-> 0,
                       changed_files |-> 0,
                       error_files   |-> <<>>,
                       canceled      |-> FALSE,
                       outcomes      |-> <<>>,
                       lateWrites    |-> 0,
                       original      |-> <<>>,
                       bakOverwrites |-> 0,
                       before        |-> vault,
                       hadBackup     |-> {}])
                /\ UNCHANGED <<eventsSet, renameQ, vault, bak, renDelivered>>

\* RenameService.cancel()
RenameCancel ==
    /\ cancel_event # NoEvent
    /\ eventsSet' = eventsSet \cup {cancel_event}
    /\ UNCHANGED <<rename_req_id, cancel_event, renWorkers, renameQ, vault, bak, renDelivered>>

\* a worker emitting the count of the files it has finished
ProgressEventStale(w) ==
    [done |-> w.done, total |-> Len(w.files), filename |-> w.files[w.done + 1]]

\* "done += 1" and the arguments of signals.progress.emit, w being the
\* worker at the head of the loop
ProgressEvent(w) ==
    [done |-> w.done + 1, total |-> Len(w.files), filename |-> w.files[w.done + 1]]

\* the head of the loop "for path in self.files": when the files are
\* exhausted the result is emitted; otherwise the flag is looked at, and
\* either the loop is left with canceled = True or progress is emitted
WorkerLoopHead ==
    \E id \in DOMAIN renWorkers :
        LET w == renWorkers[id]
            seen == w.done < Len(w.files) /\ CancelSeen(w.cancel_event, eventsSet)
        IN /\ w.pc = "loop"
           /\ IF w.done = Len(w.files) \/ seen
              THEN /\ renWorkers' = [renWorkers EXCEPT ![id] = Ended(w, "done")]
                   /\ renameQ' = Append(renameQ,
                         [req_id |-> w.req_id, kind |-> "finished",
                          body |-> RenameResult(w, seen)])
              ELSE /\ renWorkers' = [renWorkers EXCEPT ![id].pc = "file",
                                                      ![id].done = w.done + 1]
                   /\ renameQ' = Append(renameQ,
                         [req_id |-> w.req_id, kind |-> "progress",
                          body |-> ProgressEvent(w)])
           /\ UNCHANGED <<rename_req_id, cancel_event, eventsSet, vault, bak, renDelivered>>

\* the try block of one iteration: read the file, back it up if it has no
\* backup yet, rewrite its links and write it if they changed; failure is
\* the call that raises, if one does
WorkerFile(failures) ==
    \E id \in DOMAIN renWorkers, failure \in failures :
        LET w        == renWorkers[id]
            path     == w.files[w.done]
            original == vault[path]
            rw       == rewrite_wikilinks_targets(original, w.old_stem, w.new_stem, NoRewriteDraws)
            backedUp == failure \in {"none", "write"} /\ NeedsBackup(bak[path])
            outcome  == CASE failure = "read"   -> "read_error"
                          [] failure = "backup" -> "backup_error"
                          [] failure = "write"  -> "write_error"
                          [] OTHER -> IF rw.changed THEN "written" ELSE "unchanged"
        IN /\ w.pc = "file"
           /\ failure = "backup" => bak[path] = NoFile
           /\ failure = "write" => rw.changed
           /\ bak' = IF backedUp THEN [bak EXCEPT ![path] = original] ELSE bak
           /\ vault' = IF outcome = "written" THEN [vault EXCEPT ![path] = rw.text] ELSE vault
           /\ renWorkers' = [renWorkers EXCEPT
                 ![id].pc = "loop",
                 ![id].changed_files = ChangedAfter(w.changed_files, outcome),
                 ![id].error_files =
                     IF outcome \in {"read_error", "backup_error", "write_error"}
                     THEN Append(w.error_files, path) ELSE w.error_files,
                 ![id].outcomes = Append(w.outcomes, outcome),
                 ![id].lateWrites =
                     IF outcome = "written" /\ w.cancel_event \in eventsSet
                     THEN w.lateWrites + 1 ELSE w.lateWrites,
                 ![id].hadBackup =
                     IF failure # "read" /\ ~NeedsBackup(bak[path])
                     THEN w.hadBackup \cup {path} ELSE w.hadBackup]
           /\ UNCHANGED <<rename_req_id, cancel_event, eventsSet, renameQ, renDelivered>>

\* the end of one iteration with the given outcome: the counters and the
\* error list as the try block and its except clause leave them
AfterFile(w, outcome) ==
    [w EXCEPT
        !.pc = "loop",
        !.changed_files = ChangedAfter(w.changed_files, outcome),
        !.error_files = IF outcome \in {"read_error", "backup_error", "write_error"}
                        THEN Append(w.error_files, w.files[w.done])
                        ELSE w.error_files,
        !.outcomes = Append(w.outcomes, outcome),
        !.lateWrites = IF outcome = "written" /\ w.cancel_event \in eventsSet
                       THEN w.lateWrites + 1 ELSE w.lateWrites]

\* The try block of one iteration taken call by call, for workers that run
\* side by side.  original = path.read_text(encoding="utf-8")
WorkerRead(failures) ==
    \E id \in DOMAIN renWorkers, failure \in failures :
        LET w == renWorkers[id]
        IN /\ w.pc = "file"
           /\ renWorkers' = [renWorkers EXCEPT ![id] =
                 IF failure = "read" THEN AfterFile(w, "read_error")
                 ELSE [w EXCEPT !.pc = "exists", !.original = vault[w.files[w.done]]]]
           /\ UNCHANGED <<rename_req_id, cancel_event, eventsSet, renameQ, vault, bak,
                          renDelivered>>

\* "if not backup.exists():"
WorkerBackupExists ==
    \E id \in DOMAIN renWorkers :
        LET w == renWorkers[id]
        IN /\ w.pc = "exists"
           /\ renWorkers' = [renWorkers EXCEPT
                 ![id].pc = IF NeedsBackup(bak[w.files[w.done]]) THEN "backup" ELSE "rewrite",
                 ![id].hadBackup = IF NeedsBackup(bak[w.files[w.done]]) THEN w.hadBackup
                                   ELSE w.hadBackup \cup {w.files[w.done]}]
           /\ UNCHANGED <<rename_req_id, cancel_event, eventsSet, renameQ, vault, bak,
                          renDelivered>>

\* atomic_write_text(backup, original): the .bak file is replaced, whatever
\* it holds by now
WorkerBackup(failures) ==
    \E id \in DOMAIN renWorkers, failure \in failures :
        LET w    == renWorkers[id]
            path == w.files[w.done]
        IN /\ w.pc = "backup"
           /\ IF failure = "backup"
              THEN /\ renWorkers' = [renWorkers EXCEPT ![id] = AfterFile(w, "backup_error")]
                   /\ bak' = bak
              ELSE /\ renWorkers' = [renWorkers EXCEPT
                         ![id].pc = "rewrite",
                         ![id].bakOverwrites =
                             IF bak[path] # NoFile THEN w.bakOverwrites + 1
                             ELSE w.bakOverwrites]
                   /\ bak' = [bak EXCEPT ![path] = w.original]
           /\ UNCHANGED <<rename_req_id, cancel_event, eventsSet, renameQ, vault, renDelivered>>

\* rewrite_wikilinks_targets(original, ...) and, if changed,
\* atomic_write_text(path, rewritten)
WorkerRewrite(failures) ==
    \E id \in DOMAIN renWorkers, failure \in failures :
        LET w       == renWorkers[id]
            path    == w.files[w.done]
            rw      == rewrite_wikilinks_targets(w.original, w.old_stem, w.new_stem, NoRewriteDraws)
            outcome == IF ~rw.changed THEN "unchanged"
                       ELSE IF failure = "write" THEN "write_error" ELSE "written"
        IN /\ w.pc = "rewrite"
           /\ failure = "write" => rw.changed
           /\ vault' = IF outcome = "written" THEN [vault EXCEPT ![path] = rw.text] ELSE vault
           /\ renWorkers' = [renWorkers EXCEPT ![id] = AfterFile(w, outcome)]
           /\ UNCHANGED <<rename_req_id, cancel_event, eventsSet, renameQ, bak, renDelivered>>

\* run(): an exception that escapes _run_internal is reported by failed
WorkerCrash ==
    \E id \in DOMAIN renWorkers :
        /\ renWorkers[id].pc = "loop"
        /\ renWorkers' = [renWorkers EXCEPT ![id] = Ended(renWorkers[id], "crashed")]
        /\ renameQ' = Append(renameQ, [req_id |-> renWorkers[id].req_id, kind |-> "failed",
                                       body |-> None])
        /\ UNCHANGED <<rename_req_id, cancel_event, eventsSet, vault, bak, renDelivered>>

\* the interactive thread takes the next queued signal: _handle_progress,
\* _handle_finished or _handle_failed
DeliverRename ==
    /\ renameQ # <<>>
    /\ renameQ' = Tail(renameQ)
    /\ renDelivered' = [req_id  |-> Head(renameQ).req_id,
                        kind    |-> Head(renameQ).kind,
                        cur     |-> rename_req_id,
                        applied |-> IsCurrentRename(Head(renameQ).req_id, rename_req_id)]
    /\ UNCHANGED <<rename_req_id, cancel_event, eventsSet, renWorkers, vault, bak>>

\* p.stem of the files of the vault
FileStem(f) ==
    CASE f = "n1.md" -> <<"n", "1">>
      [] f = "n2.md" -> <<"n", "2">>
      [] OTHER       -> <<"n", "3">>

\* the orders in which glob can yield the files of the vault
FileOrders ==
    { o \in [1..Len(RenameFiles) -> SeqToSet(RenameFiles)] :
        \A i, j \in DOMAIN o : i # j => o[i] # o[j] }

\* the draws of an extract_wikilink_targets call that draws none
NoDraws == [k \in 1..MaxSpans |-> "t1"]

\* update_note(p.stem, text) from rebuild_from_vault, src being the
\* canonical stem of the file
IndexFileAs(idx, src, text) ==
    ReplaceTargets(idx, src, extract_wikilink_targets(text, NoDraws) \ {src})

\* LinkIndex.rebuild_from_vault over the files of v, from the index idx on
RECURSIVE RebuildVault(_, _, _)
RebuildVault(idx, order, v) ==
    IF order = <<>> THEN idx
    ELSE RebuildVault(IndexFileAs(idx, CanonStem(FileStem(Head(order))), v[Head(order)]),
                      Tail(order), v)

\* current_path after the handler's step 4: it follows the renamed note
PathAfterRename(cur, res) ==
    IF cur # None /\ (cur = CanonStem(res.new_stem) \/ cur = CanonStem(res.old_stem))
    THEN res.new_stem ELSE cur

\* NotesApp._on_rename_rewrite_finished past its request id test, idx being
\* what _rebuild_link_index leaves: the index is replaced, and then
\* request_build_link_graph(immediate=True) takes its snapshot
RenameFinishedApply(res, idx) ==
    /\ current' = PathAfterRename(current, res)
    /\ outgoing' = idx.outgoing
    /\ incoming' = idx.incoming
    /\ lastCall' = [op |-> "rebuild_from_vault"]
    /\ graph_debounce' = TimerAfterImmediate(graph_debounce)
    /\ windowCount' = 0
    /\ requestedCtx' = NoRequest
    /\ lastEvent' = [op |-> "immediate", pending |-> graph_debounce]
    /\ RequestNow(graph_mode, graph_depth, PathAfterRename(current, res), idx.outgoing)
    /\ UNCHANGED <<graph_mode, graph_depth, signalQ, delivered>>

\* NotesApp._on_rename_rewrite_finished
OnRenameRewriteFinished(res) ==
    \E order \in FileOrders : RenameFinishedApply(res, RebuildVault(ClearedIndex, order, vault))

\* NotesApp._on_rename_rewrite_failed past its request id test: the progress
\* dialog is closed and a warning shown
OnRenameRewriteFailed == UNCHANGED <<idxVars, graphVars>>

\* the interactive thread takes the next signal of a rename worker:
\* _on_rename_rewrite_progress, _on_rename_rewrite_finished or
\* _on_rename_rewrite_failed, each returning at once for a request that is
\* not the current one
OnRenameSignal ==
    /\ DeliverRename
    /\ IF ~IsCurrentRename(Head(renameQ).req_id, rename_req_id)
          \/ Head(renameQ).kind = "progress"
       THEN UNCHANGED <<idxVars, graphVars>>
       ELSE IF Head(renameQ).kind = "finished"
            THEN OnRenameRewriteFinished(Head(renameQ).body)
            ELSE OnRenameRewriteFailed

(***************************************************************************)
(* atomic_write_text (filesystem.py): the text is written to a temporary   *)
(* file next to the target, which then replaces the target.  One call is   *)
(* run step by step; every step that can raise either succeeds or raises.  *)
(***************************************************************************)
VARIABLES aw    \* the call in progress or ended last: its position pc, the
                \* target file, this call's temporary file, whether the
                \* handle f is open, the text to write, the target before the
                \* call, the exception state, and the number of calls so far

awVars == <<aw>>

\* the texts written and the contents a target starts with
AwTexts == {<<"a">>, <<"b", "c">>}

AwTargets == {NoFile, <<"o", "l", "d">>}

\* what a write that raises can have left in the temporary file
Prefixes(text) == { SubSeq(text, 1, n) : n \in 0..(Len(text) - 1) }

\* no call made yet, the target holding target
AwIdle(target) ==
    aw = [pc |-> "idle", target |-> target, tmp |-> NoFile, f |-> FALSE, text |-> <<>>,
          before |-> target, raised |-> FALSE, unlinkFailed |-> FALSE, calls |-> 0]

InitAw == \E target \in AwTargets : AwIdle(target)

\* the exception leaves the try block: the finally clause runs next
Raise(a) == [a EXCEPT !.pc = "finally", !.raised = TRUE]

\* a finally clause that forgets the temporary file
TmpAfterCleanupKept(tmp, unlinkOk) == tmp

\* "if tmp_path.exists(): tmp_path.unlink()", an exception being ignored
TmpAfterCleanup(tmp, unlinkOk) == IF unlinkOk THEN NoFile ELSE tmp

\* atomic_write_text(path, text) is called; tmp_path is a fresh name
AwCall(texts, lim) ==
    \E text \in texts :
        /\ aw.pc \in {"idle", "returned", "raised"}
        /\ aw.calls < lim
        /\ aw' = [aw EXCEPT !.pc = "open", !.text = text, !.before = aw.target,
                            !.tmp = NoFile, !.f = FALSE, !.raised = FALSE,
                            !.unlinkFailed = FALSE, !.calls = aw.calls + 1]

\* f = open(tmp_path, "w", ...)
AwOpen ==
    \E ok \in BOOLEAN :
        /\ aw.pc = "open"
        /\ aw' = IF ok THEN [aw EXCEPT !.pc = "write", !.tmp = <<>>, !.f = TRUE]
                 ELSE Raise(aw)

\* f.write(text): a write that raises may have written part of the text
AwWrite ==
    \E ok \in BOOLEAN, part \in Prefixes(aw.text) :
        /\ aw.pc = "write"
        /\ aw' = IF ok THEN [aw EXCEPT !.pc = "flush", !.tmp = aw.text]
                 ELSE [Raise(aw) EXCEPT !.tmp = part]

\* f.flush()
AwFlush ==
    \E ok \in BOOLEAN :
        /\ aw.pc = "flush"
        /\ aw' = IF ok THEN [aw EXCEPT !.pc = "fsync"] ELSE Raise(aw)

\* os.fsync(f.fileno())
AwFsync ==
    \E ok \in BOOLEAN :
        /\ aw.pc = "fsync"
        /\ aw' = IF ok THEN [aw EXCEPT !.pc = "close"] ELSE Raise(aw)

\* f.close(); f = None
AwClose ==
    \E ok \in BOOLEAN :
        /\ aw.pc = "close"
        /\ aw' = IF ok THEN [aw EXCEPT !.pc = "replace", !.f = FALSE] ELSE Raise(aw)

\* tmp_path.replace(path)
AwReplace ==
    \E ok \in BOOLEAN :
        /\ aw.pc = "replace"
        /\ aw' = IF ok THEN [aw EXCEPT !.pc = "finally", !.target = aw.tmp, !.tmp = NoFile]
                 ELSE Raise(aw)

\* the finally clause: f is closed if it is still open and the temporary
\* file is removed if it exists, exceptions of either being ignored; then
\* the call returns or the exception of the try block propagates
AwFinally ==
    \E unlinkOk \in BOOLEAN :
        /\ aw.pc = "finally"
        /\ aw.tmp = NoFile => unlinkOk
        /\ aw' = [aw EXCEPT !.pc = IF aw.raised THEN "raised" ELSE "returned",
                            !.f = FALSE,
                            !.tmp = TmpAfterCleanup(aw.tmp, unlinkOk),
                            !.unlinkFailed = ~unlinkOk]

(***************************************************************************)
(* The specifications: each one runs the operations of one part of the     *)
(* program and leaves the other parts as constructed.                      *)
(***************************************************************************)
(***************************************************************************)
(* The editor of NotesApp: the text being edited, the dirty flag, the      *)
(* text saved last, the autosave timer with its note tokens, the note      *)
(* files and the recovery directory. NotesApp.current_path is the variable *)
(* current of the graph part.                                              *)
(***************************************************************************)
VARIABLES ed    \* text: editor.toPlainText(); dirty, last_saved_text,
                \* note_token, pending_save_token: the fields of NotesApp;
                \* save_timer: save_timer.isActive(); shown: the note whose
                \* file was loaded into the editor last; files: note -> the
                \* text of its file; recovery: the copies in RECOVERY_DIR;
                \* last: the handler that ran last, what its save_now
                \* returned and whether its write raised

edVars == <<ed>>

\* the notes opened in the editor
EdNotes == {IdA, IdB}

\* the texts typed: in note B they have the same links (none, the link
\* to B being a link to the note itself), in note A they differ in links
EdTexts == {TextEmpty, TextB}

\* the values of uuid.uuid4().hex. A new token differs from every token
\* drawn before; the only one of those the program still holds when
\* _note_token is assigned is _pending_save_token
NoteTokens == {"u1", "u2"}

NewToken(e) == CHOOSE t \in NoteTokens : t # e.pending_save_token

NoSave == [returned |-> FALSE, links_changed |-> FALSE, failed |-> FALSE]

EdIdle ==
    ed = [text |-> TextEmpty, dirty |-> FALSE, last_saved_text |-> TextEmpty,
          note_token |-> "u1", pending_save_token |-> "u1", save_timer |-> FALSE,
          shown |-> None, files |-> [n \in EdNotes |-> TextEmpty], recovery |-> {},
          last |-> [op |-> "init"]]

\* the outcomes of the two writes of save_now: atomic_write_text of the note
\* raises or not, and if it raises write_recovery_copy raises or not
SaveFailures == {"none", "write", "write_and_recovery"}

\* save_now skipping the test of the pending-save token
TokenMismatchIgnored(e, check_token) == FALSE

\* save_now: check_token and self._pending_save_token != self._note_token
TokenMismatch(e, check_token) ==
    check_token /\ e.pending_save_token # e.note_token

\* save_now: the decision whether there is something to write,
\* text != _last_saved_text with force and _dirty without
NeedsWrite(e, force) ==
    IF force THEN e.text # e.last_saved_text ELSE e.dirty

\* save_now gets as far as atomic_write_text: there is a current note, the
\* token test passes and there is something to write
ReachesWrite(e, cur, force, check_token) ==
    cur # None /\ ~TokenMismatch(e, check_token) /\ NeedsWrite(e, force)

\* save_now clearing the dirty flag also when the write failed
AfterFailedWriteCleared(e) == [e EXCEPT !.dirty = FALSE, !.last_saved_text = e.text]

\* save_now when atomic_write_text raised: the except block assigns no field
AfterFailedWrite(e) == e

\* save_now(force, check_token) on the editor e, the current note cur and the
\* index idx; failure is the write that raises, toks the draws of
\* update_note. The result is the editor and the index afterwards and what
\* the call did: the value returned (True exactly when the file was
\* written), what update_note returned, whether the write raised
save_now(e, cur, idx, force, check_token, failure, toks) ==
    LET r == update_note(idx, cur, e.text, toks)
    IN IF ~ReachesWrite(e, cur, force, check_token)
       THEN [ed |-> e, idx |-> idx, did |-> NoSave]
       ELSE IF failure = "none"
       THEN [ed  |-> [e EXCEPT !.files[cur] = e.text, !.dirty = FALSE,
                               !.last_saved_text = e.text],
             idx |-> [outgoing |-> r.outgoing, incoming |-> r.incoming],
             did |-> [returned |-> TRUE, links_changed |-> r.changed,
                      failed |-> FALSE]]
       ELSE [ed  |-> [AfterFailedWrite(e) EXCEPT
                         !.recovery = IF failure = "write"
                                      THEN e.recovery \cup {<<cur, e.text>>}
                                      ELSE e.recovery],
             idx |-> idx,
             did |-> [returned |-> FALSE, links_changed |-> FALSE, failed |-> TRUE]]

\* the failures a save_now(force, check_token) call can meet: none when it
\* does not get to the write, and none once the recovery directory holds
\* MaxRecoveryCopies copies
FailuresNow(force, check_token) ==
    IF ReachesWrite(ed, current, force, check_token)
       /\ Cardinality(ed.recovery) < MaxRecoveryCopies
    THEN SaveFailures ELSE {"none"}

\* the user edits the text: _on_text_changed
OnTextChanged(texts) ==
    \E text \in texts \ {ed.text} :
        /\ ed' = [ed EXCEPT !.text = text, !.dirty = TRUE,
                            !.pending_save_token = ed.note_token,
                            !.save_timer = TRUE,
                            !.last = [op |-> "_on_text_changed"]]
        /\ UNCHANGED <<idxVars, graphVars>>

\* what a save_now call s outside _open_note_no_history does to the index
\* and the graph part: with links_changed, request_build_link_graph()
SaveRequests(s) ==
    /\ outgoing' = s.idx.outgoing
    /\ incoming' = s.idx.incoming
    /\ IF s.did.returned /\ s.did.links_changed
       THEN /\ windowCount < MaxBurst
            /\ graph_debounce' = TRUE
            /\ windowCount' = windowCount + 1
            /\ requestedCtx' = GraphContext(graph_mode, graph_depth, current,
                                            s.idx.outgoing)
            /\ lastEvent' = [op |-> "save_now"]
       ELSE UNCHANGED <<graph_debounce, windowCount, requestedCtx, lastEvent>>
    /\ UNCHANGED <<lastCall, graph_req_id, graph_mode, graph_depth, current, workers,
                   signalQ, delivered>>

\* the draws of the update_note call of a save of the editor text
SaveDraws == TokFnsFor(ed.text)

\* the autosave timer fires: _save_current_if_needed, which is
\* save_now(force=False, check_token=True)
SaveTimerTimeout ==
    /\ ed.save_timer
    /\ \E failure \in FailuresNow(FALSE, TRUE), toks \in SaveDraws :
          LET s == save_now([ed EXCEPT !.save_timer = FALSE], current,
                            [outgoing |-> outgoing, incoming |-> incoming],
                            FALSE, TRUE, failure, toks)
          IN /\ ed' = [s.ed EXCEPT !.last = [op |-> "_save_current_if_needed",
                                             returned |-> s.did.returned,
                                             failed |-> s.did.failed]]
             /\ SaveRequests(s)

\* the Save menu entry: save_now(force=True)
SaveTriggered ==
    \E failure \in FailuresNow(TRUE, FALSE), toks \in SaveDraws :
        LET s == save_now(ed, current, [outgoing |-> outgoing, incoming |-> incoming],
                          TRUE, FALSE, failure, toks)
        IN /\ ed' = [s.ed EXCEPT !.last = [op |-> "save_now",
                                           returned |-> s.did.returned,
                                             failed |-> s.did.failed]]
           /\ SaveRequests(s)

\* the editor after path.read_text() and setPlainText(text) of an open
LoadedInto(e, title) ==
    [e EXCEPT !.text = e.files[title], !.shown = title, !.dirty = FALSE,
              !.last_saved_text = e.files[title]]

\* _open_note_no_history(title): the timers are stopped, the previous note
\* is flushed with save_now(force=True), the note becomes current with a new
\* token, its file is read and shown and a build is requested at once; when
\* the read raises the handler ends after the new token
OpenNoteNoHistory(titles, lim) ==
    \E title \in titles, readOk \in BOOLEAN, failure \in FailuresNow(TRUE, FALSE),
       toks \in SaveDraws :
        LET stopped == [ed EXCEPT !.save_timer = FALSE]
            s       == save_now(stopped, current,
                                [outgoing |-> outgoing, incoming |-> incoming],
                                TRUE, FALSE, failure, toks)
            renewed == [s.ed EXCEPT !.note_token = NewToken(s.ed)]
            opened  == IF readOk THEN LoadedInto(renewed, title) ELSE renewed
        IN /\ ed' = [opened EXCEPT !.last = [op |-> "_open_note_no_history",
                                             returned |-> s.did.returned,
                                             failed |-> s.did.failed,
                                             read |-> readOk]]
           /\ OpenAfterFlush(title, readOk,
                             [outgoing |-> s.idx.outgoing, incoming |-> s.idx.incoming,
                              changed  |-> s.did.returned /\ s.did.links_changed],
                             lim)

(***************************************************************************)
(* NavigationController (navigation.py): the current note id and the back  *)
(* and forward history, committed after the open callback has succeeded.   *)
(***************************************************************************)
VARIABLES nav   \* current: _current or None; back, forward: the deques, newest
                \* entry last; history_limit: their maxlen or NoLimit;
                \* last: the call made last, the id it was about, whether the
                \* callback was called and how the call ended

navVars == <<nav>>

\* history_limit=None: deque(maxlen=None)
NoLimit == -1

\* the note ids given to open(): padded, blank and empty ones as well
NavInputs == {IdA, IdB, IdC, <<" ", "A">>, <<" ">>, <<>>}

\* what the open callback does: it returns None, True, False or a value
\* that is no bool, or it raises
CallbackOutcomes == {"None", "True", "False", "other", "raises"}

\* _normalize_note_id
NormalizeNoteId(note_id) == Strip(note_id)

\* deque(maxlen=limit).append(x): a full deque drops its oldest entry, a
\* deque of maxlen 0 stays empty
DequeAppend(stack, x, limit) ==
    IF limit = NoLimit THEN Append(stack, x)
    ELSE IF limit = 0 THEN stack
    ELSE IF Len(stack) = limit THEN Append(Tail(stack), x)
    ELSE Append(stack, x)

\* deque.pop()
DequePop(stack) == SubSeq(stack, 1, Len(stack) - 1)

\* _try_open: "True" and "False" are its results, "raised" the exception of
\* the callback or the TypeError for a result that is no bool
TryOpen(outcome) ==
    CASE outcome \in {"None", "True"} -> "True"
      [] outcome = "False"            -> "False"
      [] OTHER                        -> "raised"

\* a controller that changes its state whatever the callback did
CommitsAlways(result) == TRUE

\* "if not self._try_open(...): return False": the assignments that follow
\* are reached only after _try_open returned True
Commits(result) == result = "True"

NavFresh(limit) ==
    [current |-> None, back |-> <<>>, forward |-> <<>>, history_limit |-> limit,
     last |-> [op |-> "init"]]

\* the controller as constructed, without a limit
NavIdle == nav = NavFresh(NoLimit)

\* open(note_id, reopen_current=...)
NavOpen(inputs, depth) ==
    \E note_id \in inputs, reopen_current \in BOOLEAN, outcome \in CallbackOutcomes :
        LET normalized_id == NormalizeNoteId(note_id)
            called == normalized_id # <<>> /\ (nav.current # normalized_id \/ reopen_current)
            result == IF called THEN TryOpen(outcome) ELSE "False"
            last   == [op |-> "open", note_id |-> normalized_id, called |-> called,
                       result |-> result]
        IN /\ ~called => outcome = "None"
           /\ Len(nav.back) < depth
           /\ nav' = IF called /\ nav.current # normalized_id /\ Commits(result)
                     THEN [nav EXCEPT
                             !.back = IF nav.current # None
                                      THEN DequeAppend(nav.back, nav.current, nav.history_limit)
                                      ELSE nav.back,
                             !.forward = IF nav.current # None THEN <<>> ELSE nav.forward,
                             !.current = normalized_id,
                             !.last = last]
                     ELSE [nav EXCEPT !.last = last]

\* _navigate(source, target) for back() and forward(): the record after the
\* call, from being the name of the source deque
Navigated(n, op, outcome) ==
    LET source == IF op = "back" THEN n.back ELSE n.forward
        target == IF op = "back" THEN n.forward ELSE n.back
        called == source # <<>> /\ n.current # None
        result == IF called THEN TryOpen(outcome) ELSE "False"
        last   == [op |-> op, note_id |-> IF called THEN source[Len(source)] ELSE None,
                   called |-> called, result |-> result]
        moved  == DequeAppend(target, n.current, n.history_limit)
    IN IF called /\ Commits(result)
       THEN [n EXCEPT !.back = IF op = "back" THEN DequePop(source) ELSE moved,
                      !.forward = IF op = "back" THEN moved ELSE DequePop(source),
                      !.current = source[Len(source)],
                      !.last = last]
       ELSE [n EXCEPT !.last = last]

\* back()
NavBack ==
    \E outcome \in CallbackOutcomes :
        /\ (nav.back = <<>> \/ nav.current = None) => outcome = "None"
        /\ nav' = Navigated(nav, "back", outcome)

\* forward()
NavForward ==
    \E outcome \in CallbackOutcomes :
        /\ (nav.forward = <<>> \/ nav.current = None) => outcome = "None"
        /\ nav' = Navigated(nav, "forward", outcome)

\* clear()
NavClear ==
    nav' = [nav EXCEPT !.back = <<>>, !.forward = <<>>, !.current = None,
                       !.last = [op |-> "clear"]]

(***************************************************************************)
(* The pure functions called on their own: safe_filename,                  *)
(* extract_wikilink_targets and rewrite_wikilinks_targets.                 *)
(***************************************************************************)
VARIABLES evaluated    \* the call evaluated last: the function, its arguments
                       \* and what it returned

fnVars == <<evaluated>>

NotEvaluated == [fn |-> "none"]

FnIdle == evaluated = NotEvaluated

vars == <<idxVars, graphVars, renameVars, awVars, fnVars, edVars, navVars>>

\* what the operations of one part leave alone
notIndex  == <<graphVars, renameVars, awVars, fnVars, edVars, navVars>>
notGraph  == <<renameVars, awVars, fnVars, edVars, navVars>>
notRename == <<idxVars, graphVars, awVars, fnVars, edVars, navVars>>
notWrite  == <<idxVars, graphVars, renameVars, fnVars, edVars, navVars>>
notFn     == <<idxVars, graphVars, renameVars, awVars, edVars, navVars>>
notEditor == <<renameVars, awVars, fnVars, navVars>>
notNav    == <<idxVars, graphVars, renameVars, awVars, fnVars, edVars>>

\* a vault for the specifications that start no rename
IdleVault == CHOOSE v \in RenameVaults : v["n2.md"] = RTextAlias

\* the link index alone
InitIndexOnly == InitIndex /\ InitGraph /\ RenameIdle(IdleVault) /\ AwIdle(NoFile) /\ FnIdle /\ EdIdle /\ NavIdle

NextIndex ==
    \/ UpdateNote /\ UNCHANGED notIndex
    \/ RebuildFromVault /\ UNCHANGED notIndex
    \/ Clear /\ UNCHANGED notIndex

SpecIndex == InitIndexOnly /\ [][NextIndex]_vars

\* the link index rebuilt from vaults with unreadable files, between updates
NextRebuild ==
    \/ UpdateNote /\ UNCHANGED notIndex
    \/ RebuildReadable /\ UNCHANGED notIndex

SpecRebuild == InitIndexOnly /\ [][NextRebuild]_vars

\* NotesApp: one note, saved and reopened, and the graph builds this requests
InitNotesApp == InitIndex /\ InitGraph /\ RenameIdle(IdleVault) /\ AwIdle(NoFile) /\ FnIdle /\ EdIdle /\ NavIdle

NextGraph ==
    \/ SaveNow(GraphTexts) /\ UNCHANGED notGraph
    \/ OpenNote(GraphTitles, {}, GraphTexts, MaxReq) /\ UNCHANGED notGraph
    \/ GraphDebounceTimeout(MaxReq) /\ UNCHANGED notGraph
    \/ WorkerRun({"finished"}) /\ UNCHANGED notGraph
    \/ DeliverSignal /\ UNCHANGED notGraph

SpecGraph == InitNotesApp /\ [][NextGraph]_vars

\* NotesApp: two notes, B.md being a file whose read raises, and the graph
\* modes, with fewer builds
NextTwoNotes ==
    \/ SaveNow(GraphTexts) /\ UNCHANGED notGraph
    \/ OpenNote(TwoTitles, {IdB}, GraphTexts, MaxReqTwoNotes) /\ UNCHANGED notGraph
    \/ ApplyGraphMode(GraphModes, MaxReqTwoNotes) /\ UNCHANGED notGraph
    \/ GraphDebounceTimeout(MaxReqTwoNotes) /\ UNCHANGED notGraph
    \/ WorkerRun({"finished"}) /\ UNCHANGED notGraph
    \/ DeliverSignal /\ UNCHANGED notGraph

SpecTwoNotes == InitNotesApp /\ [][NextTwoNotes]_vars

\* NotesApp with graph builds that can raise
NextGraphRuns ==
    \/ SaveNow(GraphTexts) /\ UNCHANGED notGraph
    \/ OpenNote(GraphTitles, {}, GraphTexts, MaxReq) /\ UNCHANGED notGraph
    \/ GraphDebounceTimeout(MaxReq) /\ UNCHANGED notGraph
    \/ WorkerRun({"finished", "failed"}) /\ UNCHANGED notGraph
    \/ DeliverSignal /\ UNCHANGED notGraph

SpecGraphRuns == InitNotesApp /\ [][NextGraphRuns]_vars

\* NotesApp with workers that can fail, under fair scheduling: a request is
\* made only while a build can still be dispatched, the debounce timer
\* fires once it is running, the pool runs every worker it was given and
\* the event loop delivers every queued signal
NextGraphLive ==
    \/ graph_req_id < MaxReq /\ SaveNow(GraphTexts) /\ UNCHANGED notGraph
    \/ OpenNote(GraphTitles, {}, GraphTexts, MaxReq) /\ UNCHANGED notGraph
    \/ GraphDebounceTimeout(MaxReq) /\ UNCHANGED notGraph
    \/ WorkerRun({"finished", "failed"}) /\ UNCHANGED notGraph
    \/ DeliverSignal /\ UNCHANGED notGraph

SpecGraphLive ==
    /\ InitNotesApp
    /\ [][NextGraphLive]_vars
    /\ WF_vars(GraphDebounceTimeout(MaxReq) /\ UNCHANGED notGraph)
    /\ WF_vars(WorkerRun({"finished", "failed"}) /\ UNCHANGED notGraph)
    /\ WF_vars(DeliverSignal /\ UNCHANGED notGraph)

\* the ids of a vault with more notes than the smallest node limit, in
\* case-insensitive order: a1 .. a9, B1 .. B9, c1 .. F9
BigLetters == <<"a", "B", "c", "D", "e", "F">>

BigDigits == <<"1", "2", "3", "4", "5", "6", "7", "8", "9">>

BigNames ==
    [i \in 1..(Len(BigLetters) * Len(BigDigits)) |->
        <<BigLetters[((i - 1) \div Len(BigDigits)) + 1],
          BigDigits[((i - 1) % Len(BigDigits)) + 1]>>]

\* the titles on disk: the first MIN_MAX_NODES + k ids
BigExisting(k) == { BigNames[i] : i \in 1..(MIN_MAX_NODES + k) }

\* an id that is no note and no link target
NotANode == <<"q", "q">>

\* a link target without a note
VirtualNode == <<"z", "z">>

\* the link indexes of the large vault: no links; links around the ids just
\* past the smallest limit; links to a target without a note and a self-link
BigIndexes ==
    { EmptyDict,
      (BigNames[MIN_MAX_NODES + 1] :> {BigNames[1], BigNames[MIN_MAX_NODES + 2]})
         @@ (BigNames[2] :> {BigNames[MIN_MAX_NODES + 1]}),
      (BigNames[MIN_MAX_NODES] :> {VirtualNode})
         @@ (BigNames[3] :> {BigNames[3], BigNames[MIN_MAX_NODES + 2]}) }

\* the current note: none, the first id, an id past the smallest limit, an
\* id that is not in the graph
BigCenters == {None, BigNames[1], BigNames[MIN_MAX_NODES + 2], NotANode}

BigModes == {<<"global", 1>>, <<"local", 1>>}

\* graph/max_nodes: below the smallest limit, just above it, as shipped
BigMaxNodes == {10, MIN_MAX_NODES + 1, MAX_GRAPH_NODES}

\* the index idx read backwards
IncomingOf(idx) ==
    [t \in UNION { idx[s] : s \in DOMAIN idx } |-> { s \in DOMAIN idx : t \in idx[s] }]

\* NotesApp right after _request_build_link_graph_now, over a large vault:
\* one worker holds the context of the request
BigRequested(k, idx, center, md, mx) ==
    /\ outgoing = idx
    /\ incoming = IncomingOf(idx)
    /\ lastCall = NoCall
    /\ graph_req_id = 1
    /\ graph_debounce = FALSE
    /\ graph_mode = md[1]
    /\ graph_depth = md[2]
    /\ current = center
    /\ workers = {[req_id    |-> 1,
                   ctx       |-> [mode              |-> md[1],
                                  depth             |-> md[2],
                                  center            |-> center,
                                  outgoing_snapshot |-> SnapshotOf(idx),
                                  existing_titles   |-> BigExisting(k)],
                   max_nodes |-> mx]}
    /\ signalQ = <<>>
    /\ lastEvent = [op |-> "immediate", pending |-> FALSE]
    /\ delivered = <<>>
    /\ requestedCtx = NoRequest
    /\ windowCount = 0

InitBigVault ==
    /\ \E k \in 0..MaxExtra, idx \in BigIndexes, center \in BigCenters,
          md \in BigModes, mx \in BigMaxNodes :
          BigRequested(k, idx, center, md, mx)
    /\ RenameIdle(IdleVault)
    /\ AwIdle(NoFile)
    /\ FnIdle /\ EdIdle /\ NavIdle

\* the worker of the request runs and its signal is delivered
NextBigVault ==
    \/ WorkerRun({"finished"}) /\ UNCHANGED notGraph
    \/ DeliverSignal /\ UNCHANGED notGraph

SpecBigVault == InitBigVault /\ [][NextBigVault]_vars

\* the ids of a small vault
IdX == <<"X">>
IdY == <<"Y">>
IdZ == <<"Z">>

SmallIds == {IdX, IdY, IdZ}

\* the link indexes over the small vault: every note links to none, one or
\* both of the other notes (update_note keeps no self-link and no empty set)
SmallIndexes ==
    UNION { [S -> (SUBSET SmallIds) \ {{}}] : S \in SUBSET SmallIds }

SmallIndexesNoSelf ==
    { idx \in SmallIndexes : \A s \in DOMAIN idx : s \notin idx[s] }

\* the titles on disk: all three notes, or X alone (Y and Z being link
\* targets without a note)
SmallExisting == {SmallIds, {IdX}}

\* the current note: none, an empty stem, X, Z, an id that is not in the graph
SmallCenters == {None, <<>>, IdX, IdZ, NotANode}

\* global, and local with every depth up to MaxDepth
SmallModes == {<<"global", 1>>} \cup {<<"local", d>> : d \in 1..MaxDepth}

\* NotesApp right after _request_build_link_graph_now, over the small vault
SmallRequested(existing, idx, center, md) ==
    /\ outgoing = idx
    /\ incoming = IncomingOf(idx)
    /\ lastCall = NoCall
    /\ graph_req_id = 1
    /\ graph_debounce = FALSE
    /\ graph_mode = md[1]
    /\ graph_depth = md[2]
    /\ current = center
    /\ workers = {[req_id    |-> 1,
                   ctx       |-> [mode              |-> md[1],
                                  depth             |-> md[2],
                                  center            |-> center,
                                  outgoing_snapshot |-> SnapshotOf(idx),
                                  existing_titles   |-> existing],
                   max_nodes |-> MAX_GRAPH_NODES]}
    /\ signalQ = <<>>
    /\ lastEvent = [op |-> "immediate", pending |-> FALSE]
    /\ delivered = <<>>
    /\ requestedCtx = NoRequest
    /\ windowCount = 0

InitSmallVault ==
    /\ \E existing \in SmallExisting, idx \in SmallIndexesNoSelf,
          center \in SmallCenters, md \in SmallModes :
          SmallRequested(existing, idx, center, md)
    /\ RenameIdle(IdleVault)
    /\ AwIdle(NoFile)
    /\ FnIdle /\ EdIdle /\ NavIdle

SpecSmallVault == InitSmallVault /\ [][NextBigVault]_vars

\* RenameService and its workers
InitRenameOnly == InitIndex /\ InitGraph /\ InitRename /\ AwIdle(NoFile) /\ FnIdle /\ EdIdle /\ NavIdle

\* renames started one after the other, over three files
NextRename ==
    \/ RenameStart(RenamePairs, RenameFiles, MaxRenames, FALSE) /\ UNCHANGED notRename
    \/ RenameCancel /\ UNCHANGED notRename
    \/ WorkerLoopHead /\ UNCHANGED notRename
    \/ WorkerFile(Failures) /\ UNCHANGED notRename
    \/ WorkerCrash /\ UNCHANGED notRename
    \/ DeliverRename /\ UNCHANGED notRename

SpecRename == InitRenameOnly /\ [][NextRename]_vars

\* start() given every kind of title pair, one file per run
NextStart ==
    \/ RenameStart(StartPairs, <<"n1.md">>, MaxRenames, FALSE) /\ UNCHANGED notRename
    \/ RenameCancel /\ UNCHANGED notRename
    \/ WorkerLoopHead /\ UNCHANGED notRename
    \/ WorkerFile(Failures) /\ UNCHANGED notRename
    \/ WorkerCrash /\ UNCHANGED notRename
    \/ DeliverRename /\ UNCHANGED notRename

SpecStart == InitRenameOnly /\ [][NextStart]_vars

\* NotesApp with a rename: a note is opened, renamed, and the signals of
\* the rename worker are handled
NextRenameApp ==
    \/ OpenNote(GraphTitles, {}, GraphTexts, MaxReqTwoNotes) /\ RenameQuiet /\ UNCHANGED notGraph
    \/ RenameStart(RenamePairs, <<"n1.md">>, MaxRenames, FALSE) /\ UNCHANGED notRename
    \/ RenameCancel /\ UNCHANGED notRename
    \/ WorkerLoopHead /\ UNCHANGED notRename
    \/ WorkerFile(Failures) /\ UNCHANGED notRename
    \/ WorkerCrash /\ UNCHANGED notRename
    \/ OnRenameSignal /\ UNCHANGED <<awVars, fnVars, edVars, navVars>>

SpecRenameApp == InitRenameOnly /\ [][NextRenameApp]_vars

\* renames started while earlier ones are still at work, over one file
NextSupersede ==
    \/ RenameStart(RenamePairs, <<"n1.md">>, MaxOverlap, TRUE) /\ UNCHANGED notRename
    \/ RenameCancel /\ UNCHANGED notRename
    \/ WorkerLoopHead /\ UNCHANGED notRename
    \/ WorkerFile({"none"}) /\ UNCHANGED notRename
    \/ WorkerCrash /\ UNCHANGED notRename
    \/ DeliverRename /\ UNCHANGED notRename

SpecSupersede == InitIndexOnly /\ [][NextSupersede]_vars

\* overlapping renames over one file, each worker's iteration taken call by
\* call
NextSideBySide ==
    \/ RenameStart(RenamePairs, <<"n1.md">>, MaxOverlap, TRUE) /\ UNCHANGED notRename
    \/ WorkerLoopHead /\ UNCHANGED notRename
    \/ WorkerRead({"none", "read"}) /\ UNCHANGED notRename
    \/ WorkerBackupExists /\ UNCHANGED notRename
    \/ WorkerBackup({"none", "backup"}) /\ UNCHANGED notRename
    \/ WorkerRewrite({"none", "write"}) /\ UNCHANGED notRename
    \/ DeliverRename /\ UNCHANGED notRename

SpecSideBySide == InitIndexOnly /\ [][NextSideBySide]_vars

\* a note renamed twice, the second rename after or during the first
NextChain ==
    \/ RenameStart(ChainPairs, <<"n1.md">>, MaxChain, TRUE) /\ UNCHANGED notRename
    \/ WorkerLoopHead /\ UNCHANGED notRename
    \/ WorkerRead({"none"}) /\ UNCHANGED notRename
    \/ WorkerBackupExists /\ UNCHANGED notRename
    \/ WorkerBackup({"none", "backup"}) /\ UNCHANGED notRename
    \/ WorkerRewrite({"none", "write"}) /\ UNCHANGED notRename
    \/ DeliverRename /\ UNCHANGED notRename

SpecChain == InitIndexOnly /\ [][NextChain]_vars

\* calls of atomic_write_text, one after the other
InitWriteOnly == InitIndex /\ InitGraph /\ RenameIdle(IdleVault) /\ InitAw /\ FnIdle /\ EdIdle /\ NavIdle

NextWrite ==
    \/ AwCall(AwTexts, MaxWrites) /\ UNCHANGED notWrite
    \/ AwOpen /\ UNCHANGED notWrite
    \/ AwWrite /\ UNCHANGED notWrite
    \/ AwFlush /\ UNCHANGED notWrite
    \/ AwFsync /\ UNCHANGED notWrite
    \/ AwClose /\ UNCHANGED notWrite
    \/ AwReplace /\ UNCHANGED notWrite
    \/ AwFinally /\ UNCHANGED notWrite

SpecWrite == InitWriteOnly /\ [][NextWrite]_vars

\* the inner parts of the wikilinks of the texts given to the parser: plain,
\* padded, with an alias, with a heading or a block suffix, spelled in a
\* way that is not canonical, without a target, and blank
RwSpans ==
    { <<"A">>, <<" ", "A", " ">>, <<"A", "|", "x">>, <<"A", "|", " ", "x">>,
      <<"A", "#", "h">>, <<"A", "^", "b">>, <<"A", " ", "#", "h">>, <<"A", ".">>,
      <<"B">>, <<"C">>, <<" ", "C">>, <<"|", "x">>, <<" ">> }

\* a text with no link, with one and with two
RwTexts ==
    {<<"n", "o">>}
    \cup { <<"s", " ">> \o Link(a) : a \in RwSpans }
    \cup { Link(a) \o <<" ">> \o Link(b) : a, b \in RwSpans }

\* the titles given as old and new: two canonical ones, the empty title, a
\* blank one and a padded one
RwTitles == {<<"A">>, <<"B">>, <<>>, <<" ">>, <<" ", "A">>}

\* a call about to be made on a text and a pair of titles
InitParser ==
    /\ \E text \in RwTexts, old \in RwTitles, new \in RwTitles :
          evaluated = [fn |-> "pending", text |-> text, old |-> old, new |-> new]
    /\ InitIndex /\ InitGraph /\ RenameIdle(IdleVault) /\ AwIdle(NoFile) /\ EdIdle /\ NavIdle

\* the matches of a text whose safe_filename call in repl falls back to a
\* generated name
DrawingSpans(text) ==
    LET spans == FindSpans(text, 1)
    IN { k \in 1..Len(spans) :
            /\ Strip(spans[k]) # <<>>
            /\ SafeCleaned(BaseOf(TargetRaw(Strip(spans[k])))) = <<>> }

\* the draws of one rewrite_wikilinks_targets(text, old, new) call that
\* differ in a draw the call makes (a draw that is not made is fixed)
RewriteDrawsFor(text, old, new) ==
    { d \in RewriteDraws :
        /\ SafeCleaned(old) # <<>> => d.old = "t1"
        /\ SafeCleaned(new) # <<>> => d.new = "t1"
        /\ \A k \in 1..MaxSpans : k \notin DrawingSpans(text) => d.spans[k] = "t1" }

\* what rewrite_wikilinks_targets(text, old, new) returns, with the ids it
\* computed and the draws it made; back tells a call on a returned text
Rewritten(text, old, new, draws, back) ==
    LET rw == rewrite_wikilinks_targets(text, old, new, draws)
    IN [fn |-> "rewrite_wikilinks_targets", text |-> text, old |-> old, new |-> new,
        old_id |-> safe_filename(old, draws.old),
        new_id |-> safe_filename(new, draws.new),
        draws |-> draws, back |-> back, out |-> rw.text, changed |-> rw.changed]

\* rewrite_wikilinks_targets(text, old, new)
RewriteCall ==
    /\ evaluated.fn = "pending"
    /\ \E draws \in RewriteDrawsFor(evaluated.text, evaluated.old, evaluated.new) :
          evaluated' = Rewritten(evaluated.text, evaluated.old, evaluated.new, draws, FALSE)

\* rewrite_wikilinks_targets(out, new, old) on the text a call returned, the
\* two titles exchanged
RewriteBack ==
    /\ evaluated.fn = "rewrite_wikilinks_targets"
    /\ \E draws \in RewriteDrawsFor(evaluated.out, evaluated.new, evaluated.old) :
          evaluated' = Rewritten(evaluated.out, evaluated.new, evaluated.old, draws, TRUE)

\* extract_wikilink_targets(text)
ExtractCall ==
    /\ evaluated.fn = "pending"
    /\ \E toks \in { f \in TokFns : \A k \in 1..MaxSpans :
                                        k \notin NeedsToken(evaluated.text) => f[k] = "t1" } :
          evaluated' = [fn |-> "extract_wikilink_targets", text |-> evaluated.text,
                        toks |-> toks,
                        targets |-> extract_wikilink_targets(evaluated.text, toks)]

NextParser ==
    \/ RewriteCall /\ UNCHANGED notFn
    \/ RewriteBack /\ UNCHANGED notFn
    \/ ExtractCall /\ UNCHANGED notFn

SpecParser == InitParser /\ [][NextParser]_vars

\* the characters of the short titles: a letter, a blank, a dot, a path
\* separator and a control character
TitleChars == {"A", " ", ".", "/", "\t"}

RECURSIVE TitlesOfLength(_)
TitlesOfLength(n) ==
    IF n = 0 THEN {<<>>}
    ELSE { <<c>> \o t : c \in TitleChars, t \in TitlesOfLength(n - 1) }

\* n times the character c
Repeated(c, n) == [i \in 1..n |-> c]

\* reserved device names, compatibility characters, and titles longer than
\* MAX_FILENAME_LENGTH: letters only, a dot at the cut, dots up to the cut
LongTitles ==
    { <<"C", "O", "N">>, <<"c", "o", "n", ".", "t", "x", "t">>, <<"_", "C", "O", "N">>,
      <<"l", "p", "t", "1">>, <<"FULLWIDTH_A", "NBSP">>, <<"A", ":", "B">>,
      Repeated("a", MAX_FILENAME_LENGTH + 1),
      Repeated("a", MAX_FILENAME_LENGTH - 1) \o <<".", "b">>,
      <<"C", "O", "N">> \o Repeated(".", MAX_FILENAME_LENGTH) \o <<"b">>,
      Repeated(".", MAX_FILENAME_LENGTH) \o <<"b">> }

\* the titles given to safe_filename
SfTitles == UNION { TitlesOfLength(n) : n \in 0..MaxTitle } \cup LongTitles

\* a call about to be made on a title
InitFilename ==
    /\ \E title \in SfTitles : evaluated = [fn |-> "pending", title |-> title]
    /\ InitIndex /\ InitGraph /\ RenameIdle(IdleVault) /\ AwIdle(NoFile) /\ EdIdle /\ NavIdle

\* safe_filename(title)
SafeFilenameCall ==
    /\ evaluated.fn = "pending"
    /\ \E tok \in Tokens :
          evaluated' = [fn |-> "safe_filename", title |-> evaluated.title,
                        name |-> safe_filename(evaluated.title, tok)]

\* safe_filename(name) on the name a call returned
SafeFilenameAgain ==
    /\ evaluated.fn = "safe_filename"
    /\ \E tok \in Tokens :
          evaluated' = [fn |-> "safe_filename", title |-> evaluated.name,
                        name |-> safe_filename(evaluated.name, tok)]

NextFilename ==
    \/ SafeFilenameCall /\ UNCHANGED notFn
    \/ SafeFilenameAgain /\ UNCHANGED notFn

SpecFilename == InitFilename /\ [][NextFilename]_vars

(***************************************************************************)
(* The numerical helpers: the layout steps a graph build suggests          *)
(* (graph_worker.py, app/workers/graph_build.py) and the debounce of the   *)
(* preview (preview_timing.py)                                             *)
(***************************************************************************)
MaxOf(a, b) == IF a >= b THEN a ELSE b

MinOf(a, b) == IF a <= b THEN a ELSE b

\* int(10 * math.sqrt(n)) for n >= 0
TenRoots(n) == CHOOSE k \in 0..(10 * n) : k * k <= 100 * n /\ (k + 1) * (k + 1) > 100 * n

\* the values of the setting graph/max_steps
StepSettings == {10, 30, 39, 40, 45, 50, 250}

\* self.max_steps = max(30, int(max_steps))
WorkerMaxSteps(max_steps) == MaxOf(30, max_steps)

\* _GraphBuildWorker.run: n = max(1, len(nodes));
\* dyn_steps = int(min(self.max_steps, max(40, 20 + 10 * math.sqrt(n))))
dyn_steps(node_count, max_steps) ==
    MinOf(WorkerMaxSteps(max_steps), MaxOf(40, 20 + TenRoots(MaxOf(1, node_count))))

\* GraphBuildWorker.run: "layout_steps": min(self.max_steps, max(30, len(nodes) * 2))
layout_steps(node_count, max_steps) ==
    MinOf(WorkerMaxSteps(max_steps), MaxOf(30, node_count * 2))

GraphWorkers == {"graph_worker", "graph_build"}

\* payload["layout_steps"] of the given worker
SuggestedSteps(worker, node_count, max_steps) ==
    IF worker = "graph_worker" THEN dyn_steps(node_count, max_steps)
    ELSE layout_steps(node_count, max_steps)

PREVIEW_DEBOUNCE_MS_DEFAULT == 350

PREVIEW_DEBOUNCE_MS_MIN == 300

PREVIEW_DEBOUNCE_MS_MAX_ADD == 500

PREVIEW_DEBOUNCE_MS_CHARS_PER_STEP == 400

\* compute_preview_debounce_ms(txt_len, min_ms=..., max_add_ms=...,
\* chars_per_step=..., default_ms=...); integers do not raise
compute_preview_debounce_ms(txt_len, min_ms, max_add_ms, chars_per_step, default_ms) ==
    IF txt_len < 0 \/ min_ms < 0 \/ max_add_ms < 0 THEN default_ms
    ELSE IF chars_per_step <= 0 THEN default_ms
    ELSE min_ms + MinOf(max_add_ms, (txt_len \div chars_per_step) * min_ms)

\* the text lengths given to the helper: -1, the multiples of 100 and the
\* lengths next to a step
PreviewLengths == {-1, 399, 799} \cup { 100 * k : k \in 0..MaxHundreds }

\* the keyword arguments given to the helper: the shipped constants, and
\* each of them replaced by a value the guards are about
PreviewArgs ==
    [min_ms : {PREVIEW_DEBOUNCE_MS_MIN, 0, -1},
     max_add_ms : {PREVIEW_DEBOUNCE_MS_MAX_ADD, -1},
     chars_per_step : {PREVIEW_DEBOUNCE_MS_CHARS_PER_STEP, 0, -1},
     default_ms : {PREVIEW_DEBOUNCE_MS_DEFAULT}]

\* the helper applied to the arguments args
PreviewMs(txt_len, args) ==
    compute_preview_debounce_ms(txt_len, args.min_ms, args.max_add_ms, args.chars_per_step,
                                args.default_ms)

\* a call about to be made: a graph build over node_count nodes, or the
\* preview debounce of a text
InitNumeric ==
    /\ \/ \E worker \in GraphWorkers, n \in 0..MaxLayoutNodes, max_steps \in StepSettings :
             evaluated = [fn |-> "pending", of |-> "layout_steps", worker |-> worker,
                          node_count |-> n, max_steps |-> max_steps]
       \/ \E txt_len \in PreviewLengths, args \in PreviewArgs :
             evaluated = [fn |-> "pending", of |-> "compute_preview_debounce_ms",
                          txt_len |-> txt_len, args |-> args]
    /\ InitIndex /\ InitGraph /\ RenameIdle(IdleVault) /\ AwIdle(NoFile) /\ EdIdle /\ NavIdle

\* the build of a snapshot with n nodes suggesting its steps
Suggested(worker, n, max_steps) ==
    [fn |-> "layout_steps", worker |-> worker, node_count |-> n, max_steps |-> max_steps,
     steps |-> SuggestedSteps(worker, n, max_steps)]

\* run() reaching the suggestion
LayoutStepsCall ==
    /\ evaluated.fn = "pending"
    /\ evaluated.of = "layout_steps"
    /\ evaluated' = Suggested(evaluated.worker, evaluated.node_count, evaluated.max_steps)

\* the next build, of a snapshot with one node more and the same setting
LayoutStepsLarger ==
    /\ evaluated.fn = "layout_steps"
    /\ evaluated.node_count < MaxLayoutNodes
    /\ evaluated' = Suggested(evaluated.worker, evaluated.node_count + 1, evaluated.max_steps)

Debounced(txt_len, args) ==
    [fn |-> "compute_preview_debounce_ms", txt_len |-> txt_len, args |-> args,
     ms |-> PreviewMs(txt_len, args)]

\* compute_preview_debounce_ms called
PreviewCall ==
    /\ evaluated.fn = "pending"
    /\ evaluated.of = "compute_preview_debounce_ms"
    /\ evaluated' = Debounced(evaluated.txt_len, evaluated.args)

\* the helper called again with the same keyword arguments after the text
\* has grown
PreviewLonger ==
    /\ evaluated.fn = "compute_preview_debounce_ms"
    /\ \E txt_len \in PreviewLengths :
          /\ txt_len > evaluated.txt_len
          /\ evaluated' = Debounced(txt_len, evaluated.args)

NextNumeric ==
    \/ LayoutStepsCall /\ UNCHANGED notFn
    \/ LayoutStepsLarger /\ UNCHANGED notFn
    \/ PreviewCall /\ UNCHANGED notFn
    \/ PreviewLonger /\ UNCHANGED notFn

SpecNumeric == InitNumeric /\ [][NextNumeric]_vars

\* NotesApp with its editor: edits, saves by the timer and by the menu entry,
\* and notes opened, with writes and reads that can raise
InitEditor == InitIndex /\ InitGraph /\ RenameIdle(IdleVault) /\ AwIdle(NoFile) /\ FnIdle /\ EdIdle /\ NavIdle

NextEditor ==
    \/ OnTextChanged(EdTexts) /\ UNCHANGED notEditor
    \/ SaveTimerTimeout /\ UNCHANGED notEditor
    \/ SaveTriggered /\ UNCHANGED notEditor
    \/ OpenNoteNoHistory(EdNotes, MaxReqEditor) /\ UNCHANGED notEditor

SpecEditor == InitEditor /\ [][NextEditor]_vars

(***************************************************************************)
(* NotesApp of obsidian_project/ui/main_window.py: the same editor state,  *)
(* a save that is not guarded by the link set and a graph request that is  *)
(* not debounced                                                           *)
(***************************************************************************)
\* the write, update_note and the assignments that follow it, in
\* _save_current_if_needed and in _flush_current_note_before_switch
MainWindowWritten(e, cur, idx, toks) ==
    LET r == update_note(idx, cur, e.text, toks)
    IN [ed  |-> [e EXCEPT !.files[cur] = e.text, !.dirty = FALSE, !.last_saved_text = e.text],
        idx |-> [outgoing |-> r.outgoing, incoming |-> r.incoming]]

\* request_build_link_graph(): the request id is incremented and a worker
\* started on a snapshot, at once
MainWindowRequest(center, out, lim) ==
    /\ graph_req_id < lim
    /\ RequestNow(graph_mode, graph_depth, center, out)
    /\ lastEvent' = [op |-> "request_build_link_graph"]
    /\ UNCHANGED <<graph_debounce, windowCount, requestedCtx>>

\* "if not self._dirty or self.current_path is None: return" and the token
\* test of _save_current_if_needed
MainWindowSaves(e, cur) ==
    e.dirty /\ cur # None /\ e.pending_save_token = e.note_token

\* the autosave timer fires: _save_current_if_needed; a write that raises
\* is logged and shown in a message box
MainWindowSave(lim) ==
    /\ ed.save_timer
    /\ \E failed \in BOOLEAN, toks \in SaveDraws :
          LET e == [ed EXCEPT !.save_timer = FALSE]
              w == MainWindowWritten(e, current, [outgoing |-> outgoing, incoming |-> incoming],
                                     toks)
          IN IF MainWindowSaves(e, current) /\ ~failed
             THEN /\ ed' = [w.ed EXCEPT !.last = [op |-> "_save_current_if_needed",
                                                  returned |-> TRUE, failed |-> FALSE]]
                  /\ outgoing' = w.idx.outgoing
                  /\ incoming' = w.idx.incoming
                  /\ MainWindowRequest(current, w.idx.outgoing, lim)
                  /\ UNCHANGED <<lastCall, graph_mode, graph_depth, current, signalQ,
                                 delivered>>
             ELSE /\ failed => MainWindowSaves(e, current)
                  /\ ed' = [e EXCEPT !.last = [op |-> "_save_current_if_needed",
                                               returned |-> FALSE, failed |-> failed]]
                  /\ UNCHANGED <<idxVars, graphVars>>

\* "if current_text == self._last_saved_text: return" of
\* _flush_current_note_before_switch
MainWindowFlushes(e, cur) == cur # None /\ e.text # e.last_saved_text

\* _open_note_no_history(title): the timers are stopped, the previous note
\* is flushed, the note becomes current with a new token, its file is read
\* and shown and a build is requested; when the read raises the handler
\* ends after the new token
MainWindowOpen(titles, lim) ==
    \E title \in titles, readOk \in BOOLEAN, failed \in BOOLEAN, toks \in SaveDraws :
        LET stopped == [ed EXCEPT !.save_timer = FALSE]
            idx     == [outgoing |-> outgoing, incoming |-> incoming]
            flushed == IF MainWindowFlushes(stopped, current) /\ ~failed
                       THEN MainWindowWritten(stopped, current, idx, toks)
                       ELSE [ed |-> stopped, idx |-> idx]
            renewed == [flushed.ed EXCEPT !.note_token = NewToken(flushed.ed)]
            opened  == IF readOk THEN LoadedInto(renewed, title) ELSE renewed
        IN /\ failed => MainWindowFlushes(stopped, current)
           /\ ed' = [opened EXCEPT !.last = [op |-> "_open_note_no_history",
                                             returned |-> flushed.ed # stopped,
                                             failed |-> failed, read |-> readOk]]
           /\ outgoing' = flushed.idx.outgoing
           /\ incoming' = flushed.idx.incoming
           /\ current' = title
           /\ IF readOk
              THEN MainWindowRequest(title, flushed.idx.outgoing, lim)
              ELSE UNCHANGED <<graph_req_id, workers, lastEvent, graph_debounce, windowCount,
                               requestedCtx>>
           /\ UNCHANGED <<lastCall, graph_mode, graph_depth, signalQ, delivered>>

NextMainWindow ==
    \/ OnTextChanged(EdTexts) /\ UNCHANGED notEditor
    \/ MainWindowSave(MaxReqMainWindow) /\ UNCHANGED notEditor
    \/ MainWindowOpen(EdNotes, MaxReqMainWindow) /\ UNCHANGED notEditor

SpecMainWindow == InitEditor /\ [][NextMainWindow]_vars

\* NavigationController on its own, constructed with each history_limit
InitNav ==
    /\ \E limit \in {NoLimit} \cup 0..MaxHistoryLimit : nav = NavFresh(limit)
    /\ InitIndex /\ InitGraph /\ RenameIdle(IdleVault) /\ AwIdle(NoFile) /\ FnIdle /\ EdIdle

NextNav ==
    \/ NavOpen(NavInputs, MaxHistory) /\ UNCHANGED notNav
    \/ NavBack /\ UNCHANGED notNav
    \/ NavForward /\ UNCHANGED notNav
    \/ NavClear /\ UNCHANGED notNav

SpecNav == InitNav /\ [][NextNav]_vars

(***************************************************************************)
(* Claims about the link index, checked under SpecIndex.                   *)
(***************************************************************************)
\* C2: after any sequence of update_note, rebuild_from_vault and clear
\* calls, b is in outgoing[a] if and only if a is in incoming[b], for all
\* note ids a and b.
C2_IndexSymmetry ==
    LET ids == (DOMAIN outgoing) \cup (DOMAIN incoming)
               \cup UNION { outgoing[a] : a \in DOMAIN outgoing }
               \cup UNION { incoming[b] : b \in DOMAIN incoming }
    IN \A a, b \in ids :
          (a \in DOMAIN outgoing /\ b \in outgoing[a])
             <=> (b \in DOMAIN incoming /\ a \in incoming[b])

\* an update_note call replaced a link of A while two notes link to B or C
C2_Witness ==
    /\ lastCall.op = "update_note"
    /\ lastCall.src = IdA
    /\ lastCall.changed
    /\ IdA \in DOMAIN outgoing /\ IdC \in outgoing[IdA]
    /\ IdB \in DOMAIN incoming /\ incoming[IdB] = {IdC}
    /\ IdC \in DOMAIN incoming /\ IdA \in incoming[IdC]

\* C3: no note id a has a in outgoing[a] or a in incoming[a], also after
\* indexing a note whose text links to its own title.
C3_NoSelfLoops ==
    /\ \A a \in DOMAIN outgoing : a \notin outgoing[a]
    /\ \A a \in DOMAIN incoming : a \notin incoming[a]

\* note A was indexed with a text that links to A and to B
C3_Witness ==
    /\ lastCall.op = "update_note"
    /\ lastCall.src = IdA
    /\ lastCall.text = TextSelfAB
    /\ lastCall.changed
    /\ outgoing[IdA] = {IdB}

\* C4: update_note(id, text) called when the targets extracted from text
\* (minus id) equal outgoing[id] returns False and leaves outgoing and
\* incoming as they were; in particular a second consecutive call with the
\* same id and the same text returns False and changes nothing.
C4_IdempotentUpdate ==
    [][ /\ ( /\ lastCall'.op = "update_note"
             /\ NewTargets(CanonStem(lastCall'.src), lastCall'.text, lastCall'.toks)
                  = DictGet(outgoing, CanonStem(lastCall'.src)) )
           => ( /\ lastCall'.changed = FALSE
                /\ outgoing' = outgoing
                /\ incoming' = incoming )
        /\ ( /\ lastCall.op = "update_note"
             /\ lastCall'.op = "update_note"
             /\ lastCall'.src = lastCall.src
             /\ lastCall'.text = lastCall.text )
           => ( /\ lastCall'.changed = FALSE
                /\ outgoing' = outgoing
                /\ incoming' = incoming )
      ]_vars

(***************************************************************************)
(* Claims about NotesApp's graph builds, checked under SpecGraph and       *)
(* SpecTwoNotes.                                                           *)
(***************************************************************************)
\* the ids of the signals delivered so far, in delivery order
DeliveredIds == [i \in DOMAIN delivered |-> delivered[i].id]

\* C1: a worker's result is passed on only if its request id equals the
\* request counter at the moment of delivery; an applied result is never
\* followed by the application of a result with a smaller id; and when
\* requests 1, 2 and 3 are issued before any completes and complete in the
\* order 3, 1, 2, only the result of request 3 is passed on.
C1_StaleResultsDropped ==
    /\ [][ Len(delivered') > Len(delivered) =>
              ( delivered'[Len(delivered')].applied
                   => Head(signalQ).req_id = graph_req_id ) ]_vars
    /\ [] ( \A i, j \in DOMAIN delivered :
               (i < j /\ delivered[i].applied /\ delivered[j].applied)
                  => delivered[i].id < delivered[j].id )
    /\ [] ( ( /\ graph_req_id = 3
              /\ Len(delivered) = 3
              /\ DeliveredIds = <<3, 1, 2>> )
            => ( /\ delivered[1].applied
                 /\ ~delivered[2].applied
                 /\ ~delivered[3].applied ) )

\* three builds were requested, then their workers completed in the order
\* 3, 1, 2 and the three signals were delivered
C1_Witness ==
    /\ graph_req_id = 3
    /\ Len(delivered) = 3
    /\ DeliveredIds = <<3, 1, 2>>
    /\ delivered[1].applied
    /\ ~delivered[3].applied

\* C5: the non-immediate requests of one debounce window dispatch exactly
\* one build when the window expires, and that build's context (mode,
\* depth, center, index snapshot, existing ids) is the context of the
\* latest of those requests.
C5_DebouncedBuildUsesLatestContext ==
    [][ lastEvent'.op = "timeout" =>
           ( /\ windowCount >= 1
             /\ graph_req_id' = graph_req_id + 1
             /\ Cardinality(workers' \ workers) = 1
             /\ \A w \in workers' \ workers : w.ctx = requestedCtx ) ]_vars

\* C6: a request with immediate=True stops a running debounce timer and
\* dispatches exactly one build in the same handler; the timer then fires
\* only for a debounced request made after it.
C6_ImmediateCancelsDebounce ==
    [][ /\ lastEvent'.op = "immediate" =>
           ( /\ graph_req_id' = graph_req_id + 1
             /\ Cardinality(workers' \ workers) = 1
             /\ \A w \in workers' \ workers : w.req_id = graph_req_id'
             /\ ~graph_debounce'
             /\ windowCount' = 0 )
        /\ lastEvent'.op = "timeout" =>
           ( /\ windowCount >= 1
             /\ graph_req_id' = graph_req_id + 1 ) ]_vars

\* an immediate request arrived while the debounce timer was running
C6_Witness ==
    /\ lastEvent.op = "immediate"
    /\ lastEvent.pending
    /\ ~graph_debounce
    /\ workers # {}

\* C7: the worker is given a copy of the index made when the build is
\* dispatched, and what it returns is the graph of that copy, whatever
\* update_note did to the live index since.
C7_BuildsFromDispatchSnapshot ==
    [][ /\ \A w \in workers' \ workers :
              w.ctx.outgoing_snapshot = SnapshotOf(outgoing')
        /\ \A w \in workers \ workers' :
              signalQ'[Len(signalQ')].payload
                 = BuildGraph(w.ctx.mode, w.ctx.depth, w.ctx.center,
                              w.ctx.outgoing_snapshot, w.ctx.existing_titles,
                              w.max_nodes) ]_vars

\* a worker ran after a save had changed the index it was dispatched for
C7_Witness ==
    /\ lastEvent.op = "worker_run"
    /\ lastEvent.indexMoved
    /\ signalQ # <<>>

(***************************************************************************)
(* Claims about the rename rewrite, checked under SpecSupersede and        *)
(* SpecRename.                                                             *)
(***************************************************************************)
\* C8: a start while an earlier worker is running takes a greater request
\* id and a new, unset cancellation flag, and every progress, finished or
\* failed event of an earlier worker delivered afterwards is dropped.
C8_SupersededRenameDropped ==
    /\ [][ rename_req_id' # rename_req_id =>
              ( /\ rename_req_id' > rename_req_id
                /\ \A id \in DOMAIN renWorkers :
                      /\ renWorkers[id].req_id < rename_req_id'
                      /\ renWorkers[id].cancel_event # cancel_event'
                /\ cancel_event' \notin eventsSet' ) ]_vars
    /\ [][ (renameQ # <<>> /\ renameQ' = Tail(renameQ)) =>
              ( /\ renDelivered'.req_id = Head(renameQ).req_id
                /\ Head(renameQ).req_id < rename_req_id => ~renDelivered'.applied ) ]_vars

\* a progress event of worker 1 was dropped after a second rename was
\* started, worker 1 being still at work
C8_Witness ==
    /\ rename_req_id = 2
    /\ renWorkers[1].pc \in {"loop", "file"}
    /\ renDelivered.kind = "progress"
    /\ renDelivered.req_id = 1
    /\ renDelivered.cur = 2
    /\ ~renDelivered.applied

ErrorOutcomes == {"read_error", "backup_error", "write_error"}

\* C9: the flag is looked at before each file only: a worker that finds it
\* set leaves that file and all later ones unread, without new backup and
\* unwritten, and reports canceled = True; so at most one file is written
\* after the flag was set.
C9_CancelBetweenFilesOnly ==
    /\ [][ \A id \in DOMAIN renWorkers :
              ( /\ renWorkers[id].pc = "loop"
                /\ renWorkers'[id].pc \in {"file", "done"}
                /\ renWorkers[id].done < Len(renWorkers[id].files)
                /\ renWorkers[id].cancel_event \in eventsSet )
              => ( /\ renWorkers'[id].pc = "done"
                   /\ vault' = vault
                   /\ bak' = bak
                   /\ renameQ'[Len(renameQ')].kind = "finished"
                   /\ renameQ'[Len(renameQ')].req_id = id
                   /\ renameQ'[Len(renameQ')].body.canceled
                   /\ renameQ'[Len(renameQ')].body.changed_files
                         = renWorkers[id].changed_files ) ]_vars
    /\ [][ \A id \in DOMAIN renWorkers :
              ( renWorkers[id].pc = "file" /\ renWorkers'[id].pc = "loop" )
              => Len(renWorkers'[id].outcomes) = Len(renWorkers[id].outcomes) + 1 ]_vars
    /\ [] ( \A id \in DOMAIN renWorkers : renWorkers[id].lateWrites <= 1 )

\* a worker wrote one file after the flag was set, then found the flag set
\* and reported canceled = True with files left
C9_Witness ==
    \E id \in DOMAIN renWorkers :
        /\ renWorkers[id].pc = "done"
        /\ renWorkers[id].lateWrites = 1
        /\ \E i \in DOMAIN renameQ :
              /\ renameQ[i].kind = "finished"
              /\ renameQ[i].req_id = id
              /\ renameQ[i].body.canceled
              /\ renameQ[i].body.changed_files = 1

\* C10: an exception in the read, the backup or the write of one file adds
\* that file's path to error_files, leaves changed_files as it was and does
\* not end the loop: a worker that was not canceled reports after it went
\* through every file; three files linking to the old id with the write of
\* the second failing give changed_files = 2, error_files = [file 2],
\* canceled = False.
C10_FileErrorsIsolated ==
    /\ [][ \A id \in DOMAIN renWorkers :
              ( renWorkers[id].pc = "file" /\ renWorkers'[id].pc = "loop" )
              => LET w  == renWorkers[id]
                     w2 == renWorkers'[id]
                     o  == w2.outcomes[Len(w2.outcomes)]
                 IN /\ o \in ErrorOutcomes =>
                         ( /\ w2.error_files = Append(w.error_files, w.files[w.done])
                           /\ w2.changed_files = w.changed_files
                           /\ vault' = vault )
                    /\ o \notin ErrorOutcomes => w2.error_files = w.error_files
                    /\ w2.canceled = FALSE
                    /\ w2.done = w.done ]_vars
    /\ [][ \A id \in DOMAIN renWorkers :
              ( renWorkers[id].pc = "loop" /\ renWorkers'[id].pc = "done" )
              => LET w    == renWorkers[id]
                     body == renameQ'[Len(renameQ')].body
                 IN /\ body.canceled => w.cancel_event \in eventsSet
                    /\ ~body.canceled => Len(w.outcomes) = Len(w.files)
                    /\ body.error_files = w.error_files
                    /\ w.outcomes = <<"written", "write_error", "written">> =>
                          ( /\ body.changed_files = 2
                            /\ body.error_files = <<"n2.md">>
                            /\ body.canceled = FALSE ) ]_vars

\* three files linked to the old id, the write of the second one raised and
\* the worker went on to write the third
C10_Witness ==
    \E id \in DOMAIN renWorkers :
        /\ renWorkers[id].pc = "loop"
        /\ renWorkers[id].outcomes = <<"written", "write_error", "written">>
        /\ renWorkers[id].changed_files = 2
        /\ renWorkers[id].error_files = <<"n2.md">>

(***************************************************************************)
(* Claims about the writers of vault files.                                *)
(***************************************************************************)
\* the rename workers that are inside the try block of one file: reading
\* it, backing it up and writing it
WritersNow == { id \in DOMAIN renWorkers : renWorkers[id].pc = "file" }

\* C11: vault files are never written by two operations at once: at any
\* time at most one rename worker, a superseded one that still runs
\* included, is at work on a file.
C11_SingleWriter == Cardinality(WritersNow) <= 1

\* the call has ended, by returning or by raising
AwEnded == aw.pc \in {"returned", "raised"}

\* C12 as stated: atomic_write_text either completes, leaving the target
\* with exactly the new text, or fails at a step, leaving the target as it
\* was before the call; in both cases no temporary file of the call remains.
C12_AtomicWriteOriginal ==
    AwEnded =>
        /\ aw.pc = "returned" => aw.target = aw.text
        /\ aw.pc = "raised" => aw.target = aw.before
        /\ aw.tmp = NoFile

\* C12 amended: as above, but the temporary file is gone only if removing
\* it did not fail; the target is never touched before the replace step and
\* no handle stays open.
C12_AtomicWrite ==
    /\ AwEnded =>
          /\ aw.pc = "returned" => aw.target = aw.text
          /\ aw.pc = "raised" => aw.target = aw.before
          /\ ~aw.unlinkFailed => aw.tmp = NoFile
          /\ ~aw.f
    /\ aw.pc \in {"open", "write", "flush", "fsync", "close", "replace"}
          => aw.target = aw.before

\* a call that raised after part of the text was written over an existing
\* target: the target is as before and the temporary file is removed
C12_Witness ==
    /\ aw.pc = "raised"
    /\ aw.before # NoFile
    /\ aw.text = <<"b", "c">>
    /\ aw.target = aw.before
    /\ aw.tmp = NoFile
    /\ ~aw.unlinkFailed

(***************************************************************************)
(* Claims about the backups of the rename rewrite.                         *)
(***************************************************************************)
\* C13: when a worker replaces a file's content the file's .bak exists; a
\* .bak is created from the text the worker has just read, only when there
\* is none yet, and an existing .bak is never overwritten or modified.
C13_BackupBeforeWrite ==
    [][ /\ \A f \in DOMAIN vault :
              /\ vault'[f] # vault[f] => bak[f] # NoFile
              /\ bak[f] # NoFile => bak'[f] = bak[f]
              /\ bak'[f] # bak[f] =>
                    \E id \in DOMAIN renWorkers :
                        /\ renWorkers[id].pc = "backup"
                        /\ renWorkers[id].files[renWorkers[id].done] = f
                        /\ renWorkers[id].original = bak'[f]
        /\ \A id \in DOMAIN renWorkers' : renWorkers'[id].bakOverwrites = 0 ]_vars

\* the files a worker has written, from its outcomes so far
WrittenBy(w) == { w.files[i] : i \in { j \in 1..Len(w.outcomes) : w.outcomes[j] = "written" } }

\* C14 as stated: when a rename run ends, the .bak of every file this run
\* changed holds the text the file had immediately before this run, also
\* when an earlier rename had already rewritten the file.
C14_BackupHoldsTextBeforeRun ==
    [][ \A id \in DOMAIN renWorkers :
           ( renWorkers[id].pc = "loop" /\ renWorkers'[id].pc = "done" )
           => \A f \in WrittenBy(renWorkers[id]) : bak[f] = renWorkers[id].before[f] ]_vars

\* C14 amended: when a rename run ends, every file this run changed has a
\* .bak, and the .bak of a file that had none when the run reached it holds
\* the text the file had immediately before this run.
C14_FirstBackupHoldsTextBeforeRun ==
    [][ \A id \in DOMAIN renWorkers :
           ( renWorkers[id].pc = "loop" /\ renWorkers'[id].pc = "done" )
           => \A f \in WrittenBy(renWorkers[id]) :
                 /\ bak[f] # NoFile
                 /\ f \notin renWorkers[id].hadBackup => bak[f] = renWorkers[id].before[f] ]_vars

\* the second rename of a note has rewritten a file that the first rename
\* had rewritten and backed up: the backup still holds the first text
C14_Witness ==
    \E id \in DOMAIN renWorkers, i \in DOMAIN renameQ :
        /\ renWorkers[id].pc = "done"
        /\ id = 2
        /\ renameQ[i].kind = "finished"
        /\ renameQ[i].req_id = id
        /\ renameQ[i].body.changed_files = 1
        /\ renameQ[i].body.old_stem = IdB
        /\ bak["n1.md"] = RTextLink
        /\ vault["n1.md"] = Link(IdC)


\* the workers a step starts
StartedBy(before, after) == {after[id] : id \in DOMAIN after \ DOMAIN before}

\* C15: RenameService.start starts no worker for a rename whose titles
\* canonicalize to the same id, nor for one where either title is empty: such
\* a call leaves the request id and the cancel flag as they were
C15_StartRejectsInvalid ==
    [][\A w \in StartedBy(renWorkers, renWorkers') :
          /\ w.old_title # <<>>
          /\ w.new_title # <<>>
          /\ CanonStem(w.old_title) # CanonStem(w.new_title)]_vars


\* the step handles the signal with which a current rename rewrite ends
CurrentRenameEnds ==
    /\ renameQ # <<>>
    /\ renameQ' = Tail(renameQ)
    /\ Head(renameQ).kind \in {"finished", "failed"}
    /\ Head(renameQ).req_id = rename_req_id

\* the step rebuilds the link index from the vault and then requests a graph
\* build at once: the build's snapshot is the rebuilt index
RebuildThenImmediateGraph ==
    /\ lastCall'.op = "rebuild_from_vault"
    /\ \E order \in FileOrders :
          /\ outgoing' = RebuildVault(ClearedIndex, order, vault).outgoing
          /\ incoming' = RebuildVault(ClearedIndex, order, vault).incoming
    /\ graph_req_id' = graph_req_id + 1
    /\ ~graph_debounce'
    /\ \E w \in workers' \ workers :
          /\ w.req_id = graph_req_id'
          /\ w.ctx.outgoing_snapshot = SnapshotOf(outgoing')

\* C16: every rename rewrite that is the current one when it ends, whether
\* it completed, was canceled, had per-file errors or failed, is followed by
\* a full link index rebuild from the vault and then by an immediate graph
\* rebuild request
C16_RenameEndRebuilds == [][CurrentRenameEnds => RebuildThenImmediateGraph]_vars



\* the number of elements of the sequence q that satisfy having request id n
RECURSIVE CountId(_, _)
CountId(q, n) ==
    IF q = <<>> THEN 0
    ELSE (IF Head(q).req_id = n THEN 1 ELSE 0) + CountId(Tail(q), n)

\* the signals of request n delivered so far
DeliveredOf(n) == Cardinality({i \in DOMAIN delivered : delivered[i].id = n})

\* the workers of request n not yet run
PendingOf(n) == Cardinality({w \in workers : w.req_id = n})

\* C17: every graph worker run emits exactly one of the events finished and
\* failed (a build that raises emits failed from within the worker), and a
\* failed event reaches the error callback exactly if its request is still
\* the current one when it is delivered
C17_ExactlyOneEvent ==
    /\ [] (\A n \in 1..graph_req_id :
              /\ PendingOf(n) + CountId(signalQ, n) + DeliveredOf(n) = 1
              /\ \A i \in DOMAIN signalQ : signalQ[i].kind \in {"finished", "failed"})
    /\ [][\A w \in workers \ workers' :
              /\ Len(signalQ') = Len(signalQ) + 1
              /\ signalQ'[Len(signalQ')].req_id = w.req_id
              /\ SubSeq(signalQ', 1, Len(signalQ)) = signalQ]_vars
    /\ [][(Len(delivered') > Len(delivered) /\ Head(signalQ).kind = "failed")
            => (delivered'[Len(delivered')].applied <=> Head(signalQ).req_id = graph_req_id)]_vars

\* a build raised, its failed event was delivered and passed on to the error
\* callback; another build's failed event was dropped as stale
C17_Witness ==
    /\ \E i \in DOMAIN delivered : delivered[i].kind = "failed" /\ delivered[i].applied
    /\ \E i \in DOMAIN delivered : delivered[i].kind = "failed" /\ ~delivered[i].applied


\* C18: the force-directed layout of a graph request is computed inside the
\* background unit of work, never on the interactive thread: the payload a
\* worker emits carries the computed positions, and no delivery computes a
\* layout on the interactive thread
C18_LayoutInBackground ==
    /\ \A i \in DOMAIN signalQ :
          signalQ[i].kind = "finished" => "positions" \in DOMAIN signalQ[i].payload
    /\ \A i \in DOMAIN delivered : delivered[i].layout # "interactive"


\* the payload of the signal the step's worker run has emitted
EmittedPayload == signalQ'[Len(signalQ')].payload

\* C19: whenever the center note is among the graph's nodes (an existing id
\* or an id appearing as source or target in the index snapshot), it is in
\* the returned node list, in global mode also when the limit drops nodes,
\* and in local mode
C19_CenterKept ==
    [][\A w \in workers \ workers' :
          w.ctx.center \in AllNodes(w.ctx.outgoing_snapshot, w.ctx.existing_titles)
             => w.ctx.center \in SeqToSet(EmittedPayload.nodes)]_vars

\* a global build over MIN_MAX_NODES + 2 notes without links, limited to
\* MIN_MAX_NODES nodes: the current note, last but one by name, has taken the
\* place of the lowest-ranked kept note
C19_Witness ==
    /\ signalQ # <<>>
    /\ graph_mode = "global"
    /\ outgoing = EmptyDict
    /\ current = BigNames[MIN_MAX_NODES + 2]
    /\ Len(Head(signalQ).payload.nodes) = MIN_MAX_NODES
    /\ current \in SeqToSet(Head(signalQ).payload.nodes)
    /\ BigNames[MIN_MAX_NODES] \notin SeqToSet(Head(signalQ).payload.nodes)
    /\ BigNames[MIN_MAX_NODES + 1] \notin SeqToSet(Head(signalQ).payload.nodes)

\* x comes before y in the ranking: the higher degree first, then the
\* case-insensitive name
RanksBefore(x, y, deg) ==
    deg[x] > deg[y] \/ (deg[x] = deg[y] /\ StrLess(Lower(x), Lower(y)))

\* the nodes kept under the limit m: the top m of the ranking, the one
\* ranked last among them replaced by the center if the center was dropped
ExpectedKept(N, E, center, m) ==
    LET deg == [n \in N |-> Cardinality({e \in E : e[1] = n})
                              + Cardinality({e \in E : e[2] = n})]
        pos == [n \in N |-> 1 + Cardinality({y \in N : RanksBefore(y, n, deg)})]
        top == {n \in N : pos[n] <= m}
    IN IF center \in N /\ center \notin top
       THEN (top \ {n \in top : pos[n] = m}) \cup {center}
       ELSE top

\* the payload out of worker w is the graph limited to m nodes, if w builds
\* a global graph of more than m nodes
LimitedTo(w, out, m) ==
    (w.ctx.mode = "global"
       /\ Cardinality(AllNodes(w.ctx.outgoing_snapshot, w.ctx.existing_titles)) > m)
    => /\ Len(out.nodes) = m
       /\ SeqToSet(out.nodes)
            = ExpectedKept(AllNodes(w.ctx.outgoing_snapshot, w.ctx.existing_titles),
                           AllEdges(w.ctx.outgoing_snapshot), w.ctx.center, m)
       /\ out.edges = {e \in AllEdges(w.ctx.outgoing_snapshot) :
                          e[1] \in SeqToSet(out.nodes) /\ e[2] \in SeqToSet(out.nodes)}

\* C20 as claimed: in global mode, when the number of all nodes exceeds
\* maxNodes, the snapshot contains exactly maxNodes nodes, the top maxNodes
\* by degree descending, then by case-insensitive name ascending, the
\* lowest-ranked kept node replaced by the center if the center was dropped;
\* the edges are exactly those with both endpoints kept
C20_GlobalLimit ==
    [][\A w \in workers \ workers' : LimitedTo(w, EmittedPayload, w.max_nodes)]_vars

\* C20: the same with the limit the worker applies, the larger of maxNodes
\* and MIN_MAX_NODES, in the place of maxNodes
C20_GlobalLimitEffective ==
    [][\A w \in workers \ workers' :
          LimitedTo(w, EmittedPayload,
                    IF w.max_nodes < MIN_MAX_NODES THEN MIN_MAX_NODES ELSE w.max_nodes)]_vars

\* a global build limited to MIN_MAX_NODES nodes where the degrees decide:
\* the note just past the limit by name has three links and is kept, the
\* note at the limit has none and is dropped, and the three edges are kept
C20_Witness ==
    /\ signalQ # <<>>
    /\ graph_mode = "global"
    /\ current = None
    /\ BigNames[MIN_MAX_NODES + 1] \in DOMAIN outgoing
    /\ Len(Head(signalQ).payload.nodes) = MIN_MAX_NODES
    /\ BigNames[MIN_MAX_NODES + 1] \in SeqToSet(Head(signalQ).payload.nodes)
    /\ BigNames[MIN_MAX_NODES] \notin SeqToSet(Head(signalQ).payload.nodes)
    /\ Cardinality(Head(signalQ).payload.edges) = 3


\* a and b are joined by an edge, in either direction
Adjacent(a, b, E) == <<a, b>> \in E \/ <<b, a>> \in E

\* the nodes of N that a walk of at most d edges from c reaches
WithinHops(c, d, N, E) ==
    { n \in N : \E len \in 1..(d + 1) : \E p \in [1..len -> N] :
         /\ p[1] = c
         /\ p[len] = n
         /\ \A i \in 1..(len - 1) : Adjacent(p[i], p[i + 1], E) }

\* the payload out of worker w is the neighbourhood of the center, if w
\* builds a local graph around a center that is a node
LocalAround(w, out) ==
    (w.ctx.mode = "local"
       /\ w.ctx.center \in AllNodes(w.ctx.outgoing_snapshot, w.ctx.existing_titles))
    => /\ SeqToSet(out.nodes)
            = WithinHops(w.ctx.center, w.ctx.depth,
                         AllNodes(w.ctx.outgoing_snapshot, w.ctx.existing_titles),
                         AllEdges(w.ctx.outgoing_snapshot))
       /\ Len(out.nodes) = Cardinality(SeqToSet(out.nodes))
       /\ out.edges = {e \in AllEdges(w.ctx.outgoing_snapshot) :
                          e[1] \in SeqToSet(out.nodes) /\ e[2] \in SeqToSet(out.nodes)}

\* the scenario: edges X-Y and Y-Z, center X
ChainXYZ(w) ==
    /\ w.ctx.mode = "local"
    /\ w.ctx.center = IdX
    /\ w.ctx.outgoing_snapshot = SnapshotOf((IdX :> {IdY}) @@ (IdY :> {IdZ}))

\* C21: in local mode with the center present, the returned nodes are
\* exactly the nodes within depth hops of the center in the undirected view
\* of the edges, and the returned edges are exactly the edges with both
\* endpoints among them; for edges X-Y and Y-Z with center X, depth 1 yields
\* nodes {X, Y} and depth 2 yields {X, Y, Z}
C21_LocalNeighbourhood ==
    [][\A w \in workers \ workers' :
          /\ LocalAround(w, EmittedPayload)
          /\ (ChainXYZ(w) /\ w.ctx.depth = 1) => EmittedPayload.nodes = <<IdX, IdY>>
          /\ (ChainXYZ(w) /\ w.ctx.depth = 2) => EmittedPayload.nodes = <<IdX, IdY, IdZ>>]_vars

\* a local build of depth 1 around Z, which is linked from Y only and has
\* no outgoing link, has returned Y and Z without X
C21_Witness ==
    /\ signalQ # <<>>
    /\ graph_mode = "local"
    /\ graph_depth = 1
    /\ current = IdZ
    /\ outgoing = (IdX :> {IdY}) @@ (IdY :> {IdZ})
    /\ Head(signalQ).payload.nodes = <<IdY, IdZ>>
    /\ Head(signalQ).payload.edges = {<<IdY, IdZ>>}


\* the payload out of worker w is the whole graph, if w builds a local graph
\* without a center or around a center that is no node
LocalFallsBack(w, out) ==
    (w.ctx.mode = "local"
       /\ (w.ctx.center \in {None, <<>>}
             \/ w.ctx.center \notin AllNodes(w.ctx.outgoing_snapshot, w.ctx.existing_titles)))
    => /\ SeqToSet(out.nodes) = AllNodes(w.ctx.outgoing_snapshot, w.ctx.existing_titles)
       /\ out.edges = AllEdges(w.ctx.outgoing_snapshot)

\* C22: in local mode, when the center is absent (none or empty) or is not
\* a node of the graph, the builder returns the full node set and the full
\* edge set, not an empty graph or a graph holding only the center
C22_LocalFallback ==
    [][\A w \in workers \ workers' : LocalFallsBack(w, EmittedPayload)]_vars


\* the index before and after the step
IndexNow == [outgoing |-> outgoing, incoming |-> incoming]
IndexNext == [outgoing |-> outgoing', incoming |-> incoming']

\* the ids the index can name: the notes, and every id it holds before or
\* after the step
IdsInStep ==
    Stems \cup (DOMAIN incoming) \cup (DOMAIN incoming')
          \cup (DOMAIN outgoing) \cup (DOMAIN outgoing')

\* q holds each id once, in case-insensitive order
StrictlySortedByLower(q) ==
    \A i, j \in DOMAIN q : i < j => StrLess(Lower(q[i]), Lower(q[j]))

\* the step is update_note(src, text): afterwards src is a backlink of t
\* exactly if text links to t and t is not src, every other note is a
\* backlink of t exactly if it was one before, and the list is sorted
BacklinksFollowLatestText(src, targets) ==
    \A t \in IdsInStep \cup targets :
        /\ (src \in SeqToSet(backlinks_for(IndexNext, t, "t1")))
              <=> (t \in targets /\ t # src)
        /\ SeqToSet(backlinks_for(IndexNext, t, "t1")) \ {src}
              = SeqToSet(backlinks_for(IndexNow, t, "t1")) \ {src}
        /\ StrictlySortedByLower(backlinks_for(IndexNext, t, "t1"))

\* C23: after any sequence of update_note calls, backlinks_for(t) returns
\* exactly the ids of the notes whose most recently indexed text links to t
\* (t itself excluded), each once, in case-insensitive order: every
\* update_note(src, text) makes src a backlink of exactly the targets of text
\* and leaves the backlinks from the other notes as they were; indexing A
\* with [[B]] gives backlinks_for(B) = [A] when no other note links to B, and
\* re-indexing A without the link then gives []
C23_BacklinksOfLatestText ==
    [][lastCall'.op = "update_note" =>
          /\ BacklinksFollowLatestText(
                CanonStem(lastCall'.src),
                TargetsTable[lastCall'.text][lastCall'.toks])
          /\ (lastCall'.src = IdA /\ lastCall'.text = TextB
                 /\ DictGet(incoming, IdB) \subseteq {IdA})
               => backlinks_for(IndexNext, IdB, "t1") = <<IdA>>
          /\ (lastCall'.src = IdA /\ lastCall'.text = TextEmpty
                 /\ DictGet(incoming, IdB) = {IdA})
               => backlinks_for(IndexNext, IdB, "t1") = <<>>]_vars

\* A and C were indexed with [[B]], then A was indexed again without the
\* link: C alone is left as the backlink of B
C23_Witness ==
    /\ lastCall.op = "update_note"
    /\ lastCall.src = IdA
    /\ lastCall.text = TextEmpty
    /\ lastCall.changed
    /\ backlinks_for(IndexNow, IdB, "t1") = <<IdC>>
    /\ outgoing = (IdC :> {IdB})


\* the ids of the notes of the vault: safe_filename(p.stem), computed once
NoteId == [p \in Stems |-> CanonStem(p)]

\* the notes of the vault whose read succeeds
Readable(content) == {p \in Stems : content[p] # Unreadable}

\* the ids the text of note p links to, p itself left out
LinksOf(p, content, toksOf) == TargetsTable[content[p]][toksOf[p]] \ {NoteId[p]}

\* the index holds exactly the links of the readable notes of the vault
IndexOfReadable(idx, content, toksOf) ==
    /\ DOMAIN idx.outgoing
         = {NoteId[p] : p \in {q \in Readable(content) : LinksOf(q, content, toksOf) # {}}}
    /\ \A p \in Readable(content) :
          DictGet(idx.outgoing, NoteId[p]) = LinksOf(p, content, toksOf)
    /\ DOMAIN idx.incoming = UNION {LinksOf(p, content, toksOf) : p \in Readable(content)}
    /\ \A t \in DOMAIN idx.incoming :
          idx.incoming[t]
            = {NoteId[p] : p \in {q \in Readable(content) : t \in LinksOf(q, content, toksOf)}}

\* C24: rebuild_from_vault first clears the index and then indexes every
\* readable note: afterwards the index contains exactly the links of the
\* notes currently readable in the vault, no entry from before the rebuild
\* survives, and a note whose read fails is skipped without ending the
\* rebuild
C24_RebuildExact ==
    [][lastCall'.op = "rebuild_from_vault" =>
          IndexOfReadable(IndexNext, lastCall'.content, lastCall'.toks)]_vars

\* a rebuild found A unreadable, B linking to itself only and C linking to
\* B: the index holds C's link and nothing else
C24_Witness ==
    /\ lastCall.op = "rebuild_from_vault"
    /\ lastCall.content[IdA] = Unreadable
    /\ lastCall.content[IdB] = TextB
    /\ lastCall.content[IdC] = TextB
    /\ outgoing = (IdC :> {IdB})
    /\ incoming = (IdB :> {IdC})


\* C25: in every reachable index state, every key of outgoing and every key
\* of incoming maps to a non-empty set: when a note's last outgoing link or a
\* target's last incoming link is removed, the key itself is removed
C25_NoEmptyEntries ==
    /\ \A a \in DOMAIN outgoing : outgoing[a] # {}
    /\ \A b \in DOMAIN incoming : incoming[b] # {}

\* A, the only note linking to B, was indexed again without a link: neither
\* outgoing nor incoming has a key left
C25_Witness ==
    /\ lastCall.op = "update_note"
    /\ lastCall.src = IdA
    /\ lastCall.text = TextEmpty
    /\ lastCall.changed
    /\ outgoing = EmptyDict
    /\ incoming = EmptyDict


\* a step that rewrites the text a rewrite returned, the two titles exchanged
RewrittenBack ==
    /\ evaluated.fn = "rewrite_wikilinks_targets"
    /\ evaluated'.fn = "rewrite_wikilinks_targets"
    /\ evaluated'.back
    /\ evaluated'.text = evaluated.out
    /\ evaluated'.old = evaluated.new
    /\ evaluated'.new = evaluated.old

\* the call was made on two different titles that are their own ids and on
\* a text containing [[old]]
RoundTripInputs(call) ==
    /\ call.old # call.new
    /\ \A tok \in Tokens :
          safe_filename(call.old, tok) = call.old /\ safe_filename(call.new, tok) = call.new
    /\ \E k \in DOMAIN FindSpans(call.text, 1) : FindSpans(call.text, 1)[k] = call.old

\* the base of a span as written: what stands before "|", "#" or "^"
BaseAsWritten(span) ==
    LET target == BeforeFirst(span, "|")
    IN IF SuffixSep(target) = "NO_SEP" THEN target
       ELSE BeforeFirst(target, SuffixSep(target))

\* the span has no white space around its inner part, its target or its alias
WrittenPlainly(span) ==
    /\ Strip(span) = span
    /\ FirstIndexOf(span, "|") # 0 =>
          /\ Strip(BeforeFirst(span, "|")) = BeforeFirst(span, "|")
          /\ Strip(AfterFirst(span, "|")) = AfterFirst(span, "|")

\* the base of the span canonicalizes to id, under some draw
PointsTo(span, id) ==
    /\ Strip(span) # <<>>
    /\ \E tok \in Tokens : safe_filename(BaseOf(TargetRaw(Strip(span))), tok) = id

\* every span of the text is a blank one or written plainly, none points to
\* new, and those pointing to old spell their base as old itself
RoundTripText(call) ==
    \A k \in DOMAIN FindSpans(call.text, 1) :
        LET span == FindSpans(call.text, 1)[k]
        IN Strip(span) # <<>> =>
              /\ WrittenPlainly(span)
              /\ ~PointsTo(span, call.new)
              /\ PointsTo(span, call.old) => BaseAsWritten(span) = call.old

C27_NoOpOnEqualOrEmpty ==
    [][/\ evaluated'.fn = "rewrite_wikilinks_targets"
       /\ \/ evaluated'.old = <<>>
          \/ evaluated'.new = <<>>
          \/ evaluated'.old_id = evaluated'.new_id
       => evaluated'.out = evaluated'.text /\ ~evaluated'.changed]_vars


\* the text with every wikilink match replaced by one mark: what stands
\* outside the spans
RECURSIVE OutsideSpans(_, _)
OutsideSpans(t, i) ==
    IF i > Len(t) THEN <<>>
    ELSE IF MatchAt(t, i)
         THEN <<"SPAN">> \o OutsideSpans(t, NextClose(t, i + 2) + 2)
         ELSE <<t[i]>> \o OutsideSpans(t, i + 1)

\* the k-th span of the call's text has a base that canonicalizes to the
\* old id, under the draw the call made for it
SpanReplaced(call, k) ==
    LET span == FindSpans(call.text, 1)[k]
    IN /\ Strip(span) # <<>>
       /\ safe_filename(BaseOf(TargetRaw(Strip(span))), call.draws.spans[k]) = call.old_id

\* the span with its base replaced by the new id, alias and suffix kept
WithNewBase(call, k) ==
    LET inner  == Strip(FindSpans(call.text, 1)[k])
        target == TargetRaw(inner)
    IN call.new_id \o SuffixOf(target)
         \o (IF FirstIndexOf(inner, "|") # 0
             THEN <<"|">> \o Strip(AfterFirst(inner, "|")) ELSE <<>>)

\* C28: a rewrite that is not skipped replaces the base of exactly the spans
\* whose base canonicalizes to the old id, keeping alias and suffix; every
\* other span and the text outside the spans stay as they were; changed is
\* true if and only if a span was replaced
C28_RewriteExact ==
    [][/\ evaluated'.fn = "rewrite_wikilinks_targets"
       /\ ~RewriteSkipped(evaluated'.old_id, evaluated'.new_id)
       => /\ OutsideSpans(evaluated'.out, 1) = OutsideSpans(evaluated'.text, 1)
          /\ Len(FindSpans(evaluated'.out, 1)) = Len(FindSpans(evaluated'.text, 1))
          /\ \A k \in DOMAIN FindSpans(evaluated'.text, 1) :
                FindSpans(evaluated'.out, 1)[k] =
                   IF SpanReplaced(evaluated', k) THEN WithNewBase(evaluated', k)
                   ELSE FindSpans(evaluated'.text, 1)[k]
          /\ evaluated'.changed <=>
                \E k \in DOMAIN FindSpans(evaluated'.text, 1) : SpanReplaced(evaluated', k)]_vars


\* C29: extract_wikilink_targets returns the set of the canonical base
\* titles of all spans, the base being the part before "|" and before the
\* first "#" or "^": [[A#h]], [[A^b]] and [[A|x]] contribute the id A only
C29_ExtractBases ==
    [][evaluated'.fn = "extract_wikilink_targets" =>
          LET spans == FindSpans(evaluated'.text, 1)
          IN evaluated'.targets =
                { safe_filename(BaseOf(TargetRaw(Strip(spans[k]))), evaluated'.toks[k]) :
                     k \in { j \in DOMAIN spans : Strip(spans[j]) # <<>> } }]_vars

\* C30: safe_filename is idempotent: applied to a name it returned, for any
\* title (the empty one, a blank one, a reserved name such as CON), it
\* returns that name
C30_Idempotent ==
    [][/\ evaluated.fn = "safe_filename"
       /\ evaluated'.fn = "safe_filename"
       /\ evaluated'.title = evaluated.name
       => evaluated'.name = evaluated.name]_vars

\* a step of save_now, called by the autosave timer or the menu entry, in
\* which atomic_write_text of the note raised
SaveFailed ==
    /\ ed'.last.op \in {"_save_current_if_needed", "save_now"}
    /\ ed'.last.failed

\* the save_now call of the step, made again on the state it left, would
\* write the note
WouldWriteAgain ==
    save_now(ed', current', [outgoing |-> outgoing', incoming |-> incoming'],
             ed'.last.op = "save_now", ed'.last.op = "_save_current_if_needed",
             "none", NoDraws).did.returned

\* save_now returned False and left the editor text, the dirty flag, the
\* last-saved text, the note files and the link index as they were
EditKept ==
    /\ ~ed'.last.returned
    /\ ed'.text = ed.text
    /\ ed'.dirty = ed.dirty
    /\ ed'.last_saved_text = ed.last_saved_text
    /\ ed'.files = ed.files
    /\ outgoing' = outgoing /\ incoming' = incoming
    /\ WouldWriteAgain

ProgressEmitted ==
    /\ Len(renameQ') = Len(renameQ) + 1
    /\ renameQ'[Len(renameQ')].kind = "progress"

ProgressBody == renameQ'[Len(renameQ')].body

\* the worker id enters the try block of an iteration in this step
EntersFile(id) == renWorkers[id].pc = "loop" /\ renWorkers'[id].pc = "file"

\* the worker id leaves an iteration in this step: the file was read,
\* backed up, rewritten and written, or one of these calls raised
LeavesFile(id) == renWorkers[id].pc = "file" /\ renWorkers'[id].pc = "loop"

\* the event carries the next count, the number of files and the name of
\* the file the iteration is about
CountsOn(id) ==
    /\ ProgressBody.done = renWorkers[id].done + 1
    /\ ProgressBody.done \in 1..ProgressBody.total
    /\ ProgressBody.total = Len(renWorkers[id].files)
    /\ ProgressBody.filename = renWorkers[id].files[ProgressBody.done]
    /\ renameQ'[Len(renameQ')].req_id = renWorkers[id].req_id

\* C32 as stated: one progress event per processed file, emitted after that
\* file has been processed, carrying (done, total, filename), done counting
\* 1, 2, ... and never exceeding total.
C32_ProgressAfterFile ==
    [][ProgressEmitted =>
          \E id \in DOMAIN renWorkers :
              /\ EntersFile(id)
              /\ CountsOn(id)
              /\ Len(renWorkers'[id].outcomes) = ProgressBody.done]_vars

\* C32: a rename worker emits one progress event per file its loop takes
\* up, when it takes the file up and before the file is read: the event
\* carries (done, total, filename) with done counting 1, 2, ... and never
\* exceeding total, done - 1 files have been processed by then, and the end
\* of the iteration emits nothing.
C32_ProgressPerFile ==
    [][/\ ProgressEmitted =>
            \E id \in DOMAIN renWorkers :
                /\ EntersFile(id)
                /\ CountsOn(id)
                /\ Len(renWorkers'[id].outcomes) = ProgressBody.done - 1
       /\ \A id \in DOMAIN renWorkers :
            /\ EntersFile(id) => ProgressEmitted /\ renWorkers'[id].done = ProgressBody.done
            /\ LeavesFile(id) =>
                 /\ renameQ' = renameQ
                 /\ renWorkers'[id].done = renWorkers[id].done
                 /\ Len(renWorkers'[id].outcomes) = renWorkers[id].done]_vars

\* the second of three files has been announced and the first one processed
C32_Witness ==
    \E id \in DOMAIN renWorkers, i \in DOMAIN renameQ :
        /\ renWorkers[id].pc = "file"
        /\ renWorkers[id].done = 2
        /\ Len(renWorkers[id].outcomes) = 1
        /\ renameQ[i].kind = "progress"
        /\ renameQ[i].body = [done |-> 2, total |-> 3, filename |-> "n2.md"]


(***************************************************************************)
(* C33, C34: the suggested layout steps                                    *)
(***************************************************************************)
\* C33: the suggested step count is the integer part of
\* 20 + 10*sqrt(nodeCount) clamped to [40, maxSteps]: for every node count
\* and every maxSteps setting it is at least 40 and at most maxSteps.
C33_StepsClamped ==
    evaluated.fn = "layout_steps" =>
        /\ evaluated.steps =
             MinOf(evaluated.max_steps, MaxOf(40, 20 + TenRoots(evaluated.node_count)))
        /\ evaluated.steps >= 40
        /\ evaluated.steps <= evaluated.max_steps

\* C34: for a fixed maxSteps, the steps suggested for a snapshot with more
\* nodes are never more than the steps suggested for one with fewer nodes.
C34_FewerForLarger ==
    [][/\ evaluated.fn = "layout_steps"
       /\ evaluated'.fn = "layout_steps"
       /\ evaluated'.worker = evaluated.worker
       /\ evaluated'.max_steps = evaluated.max_steps
       /\ evaluated'.node_count > evaluated.node_count
       => evaluated'.steps <= evaluated.steps]_vars

(***************************************************************************)
(* C35: compute_preview_debounce_ms                                        *)
(***************************************************************************)
\* the call e was made with the shipped constants
ShippedArgs(e) ==
    e.args = [min_ms |-> PREVIEW_DEBOUNCE_MS_MIN, max_add_ms |-> PREVIEW_DEBOUNCE_MS_MAX_ADD,
              chars_per_step |-> PREVIEW_DEBOUNCE_MS_CHARS_PER_STEP,
              default_ms |-> PREVIEW_DEBOUNCE_MS_DEFAULT]

\* the values test_compute_preview_debounce_ms asserts
AssertedMs(e) ==
    /\ e.txt_len = -1 => e.ms = 350
    /\ e.txt_len = 100 => e.ms = 300
    /\ e.txt_len = 400 => e.ms = 600
    /\ e.txt_len = 700 => e.ms = 800

\* default_ms for a negative length or a non-positive chars_per_step,
\* otherwise a value between min_ms and min_ms + max_add_ms
DebounceRange(e) ==
    IF e.txt_len < 0 \/ e.args.chars_per_step <= 0
    THEN e.ms = e.args.default_ms
    ELSE e.ms >= e.args.min_ms /\ e.ms <= e.args.min_ms + e.args.max_add_ms

\* C35: compute_preview_debounce_ms returns default_ms for a negative
\* length or a non-positive chars_per_step and otherwise a value in
\* [min_ms, min_ms + max_add_ms] that does not decrease as the text grows;
\* with the shipped constants it returns 350 for -1, 300 for 100, 600 for
\* 400 and 800 for 700.
C35_PreviewDebounce ==
    [][evaluated'.fn = "compute_preview_debounce_ms" =>
          /\ DebounceRange(evaluated')
          /\ ShippedArgs(evaluated') => AssertedMs(evaluated')
          /\ evaluated.fn = "compute_preview_debounce_ms"
             /\ evaluated.txt_len >= 0
             /\ evaluated.args.chars_per_step > 0
             => evaluated'.ms >= evaluated.ms]_vars


(***************************************************************************)
(* C36: the graph request of a save                                        *)
(***************************************************************************)
\* the step is a save by the timer or by the menu entry
SaveStep == ed'.last.op \in {"_save_current_if_needed", "save_now"}

\* what update_note reports for the current note and the editor text
LinksChanged ==
    update_note([outgoing |-> outgoing, incoming |-> incoming], current, ed.text,
                NoDraws).changed

\* the step starts or restarts the debounce window without starting a build
DebouncedRequest ==
    /\ graph_debounce'
    /\ windowCount' = windowCount + 1
    /\ graph_req_id' = graph_req_id
    /\ workers' = workers

\* the step neither touches the debounce window nor starts a build
NoGraphRequest ==
    UNCHANGED <<graph_debounce, windowCount, requestedCtx, graph_req_id, workers>>

\* C36: saving a note requests a debounced graph rebuild if and only if
\* update_note reported that the note's outgoing link set changed; a
\* successful save that leaves the link set unchanged issues no graph
\* request and does not restart the debounce window.
C36_RequestIffLinksChanged ==
    [][SaveStep =>
          IF ed'.last.returned /\ LinksChanged THEN DebouncedRequest ELSE NoGraphRequest]_vars


(***************************************************************************)
(* C37: the editor text and the file it is written to                      *)
(***************************************************************************)
\* the step replaces the contents of the file of note f
FileWritten(f) == ed'.files[f] # ed.files[f]

\* C37: text typed into one note is never written to the file of another
\* note: whatever the order of edits, timer firings, saves and note
\* switches, a step that writes the file of a note writes the text of an
\* editor that was showing that note (or no note yet), and the note is the
\* current one.
C37_OwnFileOnly ==
    [][\A f \in EdNotes : FileWritten(f) => current = f /\ ed.shown \in {f, None}]_vars


(***************************************************************************)
(* C38: the last dispatched build reaches a callback                       *)
(***************************************************************************)
\* the signal of build n was passed on to _on_graph_built or to
\* _on_graph_build_failed
OutcomeApplied(n) ==
    \E i \in DOMAIN delivered : delivered[i].id = n /\ delivered[i].applied

\* C38: under fair scheduling of the timer, the pool and the event loop, a
\* running debounce timer eventually is no longer running, and the outcome
\* of a dispatched build eventually reaches the result or the error
\* callback unless a later build is dispatched.
C38_LastBuildArrives ==
    /\ graph_debounce ~> ~graph_debounce
    /\ \A n \in 1..MaxReq :
          (graph_req_id = n) ~> (graph_req_id # n \/ OutcomeApplied(n))

\* the second build was the last one dispatched, it failed,
\* and its failure has reached the error callback
C38_Witness ==
    /\ graph_req_id = 2
    /\ ~graph_debounce
    /\ workers = {}
    /\ signalQ = <<>>
    /\ \E i \in DOMAIN delivered :
          /\ delivered[i].id = 2
          /\ delivered[i].kind = "failed"
          /\ delivered[i].applied
    /\ \E i \in DOMAIN delivered : delivered[i].id = 1 /\ ~delivered[i].applied


(***************************************************************************)
(* C39: update_note call by call against rebuild_from_vault                *)
(***************************************************************************)
\* the texts of the notes compared; Unreadable stands for a note that has
\* had no update_note call and has no file
EquivTexts == {TextEmpty, TextB, TextAliasC, TextNoTarget}

EquivVaults == [Stems -> EquivTexts \cup {Unreadable}]

\* the indexes rebuild_from_vault can produce over each vault, whatever the
\* order of the files and the names generated
RebuiltFrom ==
    [content \in EquivVaults |->
        { rebuild_from_vault(order, content, toksOf) :
            order \in GlobOrders,
            toksOf \in { f \in [Stems -> TokFns] :
                           \A p \in Stems : f[p] \in RebuildToks(content, p) } }]

\* C39: the index reached from the empty index by update_note calls in
\* which each note's last call carries its current text equals the index
\* rebuild_from_vault produces over the same notes and texts.  By induction
\* over the calls: when the index is one that a rebuild over some vault
\* produces, it is after update_note(src, text) the index a rebuild
\* produces over that vault with the text of src replaced.
C39_IncrementalEqualsRebuild ==
    [][/\ lastCall'.op = "update_note"
       /\ lastCall'.text \in EquivTexts
       => \A content \in EquivVaults :
             IndexNow \in RebuiltFrom[content] =>
                 \A idx \in RebuiltFrom[[content EXCEPT ![lastCall'.src] = lastCall'.text]] :
                     IndexNext = idx]_vars


(***************************************************************************)
(* C40: NavigationController commits after the callback                    *)
(***************************************************************************)
NavHistory(n) == <<n.current, n.back, n.forward>>

\* the call of this step ended without a successful callback: the callback
\* returned False or raised, or the call returned before calling it
NavFailed == nav'.last.op \in {"open", "back", "forward"} /\ nav'.last.result # "True"

\* the call of this step is op and its callback succeeded
NavSucceeded(op) ==
    nav'.last.op = op /\ nav'.last.called /\ nav'.last.result = "True"

\* the newest limit entries of a stack, all of them without a limit
KeptNewest(stack, limit) ==
    IF limit = NoLimit \/ Len(stack) <= limit THEN stack
    ELSE SubSeq(stack, Len(stack) - limit + 1, Len(stack))

\* back() and forward() after a successful callback, pushed(stack, x)
\* being the target afterwards
NavMoves(source, sourceAfter, target, targetAfter, pushed) ==
    /\ source # <<>>
    /\ nav'.current = source[Len(source)]
    /\ sourceAfter = SubSeq(source, 1, Len(source) - 1)
    /\ targetAfter = pushed

\* open() of another note after a successful callback
NavOpens(pushed) ==
    /\ nav'.current = nav'.last.note_id
    /\ IF nav.current = None
       THEN nav'.back = nav.back /\ nav'.forward = nav.forward
       ELSE nav'.back = pushed /\ nav'.forward = <<>>

\* C40 as stated: a call whose callback returned False or raised leaves
\* current, back and forward unchanged; on success back() makes the top of
\* back current and pushes the previous current onto forward, forward()
\* symmetrically, and open() of a different note pushes the previous current
\* onto back and clears forward.
C40_CommitAfterCallback ==
    [][/\ NavFailed => NavHistory(nav') = NavHistory(nav)
       /\ NavSucceeded("back") =>
            NavMoves(nav.back, nav'.back, nav.forward, nav'.forward,
                     Append(nav.forward, nav.current))
       /\ NavSucceeded("forward") =>
            NavMoves(nav.forward, nav'.forward, nav.back, nav'.back,
                     Append(nav.back, nav.current))
       /\ NavSucceeded("open") /\ nav'.last.note_id # nav.current =>
            NavOpens(Append(nav.back, nav.current))]_vars

\* C40: as above, the back and forward stacks keeping the newest
\* history_limit entries only: a push onto a full stack drops its oldest
\* entry, and with a limit of 0 nothing is kept.
C40_CommitAfterCallbackBounded ==
    [][/\ NavFailed => NavHistory(nav') = NavHistory(nav)
       /\ NavSucceeded("back") =>
            NavMoves(nav.back, nav'.back, nav.forward, nav'.forward,
                     KeptNewest(Append(nav.forward, nav.current), nav.history_limit))
       /\ NavSucceeded("forward") =>
            NavMoves(nav.forward, nav'.forward, nav.back, nav'.back,
                     KeptNewest(Append(nav.back, nav.current), nav.history_limit))
       /\ NavSucceeded("open") /\ nav'.last.note_id # nav.current =>
            NavOpens(KeptNewest(Append(nav.back, nav.current), nav.history_limit))
       /\ NavSucceeded("open") /\ nav'.last.note_id = nav.current =>
            NavHistory(nav') = NavHistory(nav)]_vars

\* back() has succeeded after an open() whose callback raised had left the
\* history alone
C40_Witness ==
    /\ nav.last.op = "back"
    /\ nav.last.result = "True"
    /\ nav.current = IdA
    /\ nav.back = <<>>
    /\ nav.forward = <<IdB>>
    /\ nav.history_limit = 1

=============================================================================
